---- MODULE Spec2Model ----
(***************************************************************************)
(* A model of the response parser (src/unnamed/part_017, lines 1-829):     *)
(* parseResponse threads a shrinking "remaining text" through the stages   *)
(* extractHeadline, extractKPIs, extractAlerts, extractChartData,          *)
(* extractMenuEngineering, extractRecommendations, extractInsights and     *)
(* extractTable; a caller then asks hasVisualContent about the result.     *)
(* Beside it, the handlers of ChatInterface                                *)
(* (src/src/components/chat/ChatInterface.tsx): handleSendMessage up to    *)
(* its await, the two ways its request settles, and handleNewChat.         *)
(*                                                                         *)
(* A JavaScript string is a TLA+ string; a regular expression is an        *)
(* operator over strings that scans characters the way the expression      *)
(* does.  Positions are 1-based.  Characters outside ASCII are written     *)
(* with the ASCII stand-ins below, one stand-in character per UTF-16 code  *)
(* unit, so that Len(s) is the JavaScript s.length.                        *)
(*                                                                         *)
(* A JavaScript number is an integer count of hundredths (2600 is 260000,  *)
(* 28382.95 is 2838295); NaN is the value NaN below.                       *)
(***************************************************************************)
EXTENDS Integers, Sequences, FiniteSets, TLC

\* ------------------------------------------------------------------------
\* Stand-ins for the non-ASCII characters of the source
\* ------------------------------------------------------------------------
BULLET == "@"     \* U+2022, the bullet
UP     == "^"     \* U+2191, upwards arrow
DOWN   == "~"     \* U+2193, downwards arrow
ARROW  == ">"     \* U+2192, rightwards arrow
MDASH  == "_"     \* U+2014, em dash
NDASH  == "\\"    \* U+2013, en dash
FIRE   == "{["    \* U+1F525 (two code units)
PUZZLEICON == "{]" \* U+1F9E9 (two code units)
DOGICON == "{}"   \* U+1F415 (two code units)
BARS   == "{;"    \* U+1F4CA (two code units)
TARGET == "{<"    \* U+1F3AF (two code units)
HORSE  == "{{"    \* U+1F434 (two code units)
RISING == "{!"    \* U+1F4C8 (two code units)
WARN   == "!$"    \* U+26A0 U+FE0F (two code units)
CHECK  == "?"     \* U+2705 (one code unit)
STARICON == "/"   \* U+2B50 (one code unit)

NaN == -1

\* ------------------------------------------------------------------------
\* Strings
\* ------------------------------------------------------------------------
\* The value of a function with a one-element domain: With([x \in {e} |-> body])
\* is body with x standing for the value of e.
With(f) == f[CHOOSE x \in DOMAIN f : TRUE]

\* The least and the greatest element of a set of positions (0 for none).
Min(S) == IF S = {} THEN 0 ELSE CHOOSE x \in S : \A y \in S : x <= y
Max(S) == IF S = {} THEN 0 ELSE CHOOSE x \in S : \A y \in S : x >= y

\* s.substring(i-1, j): characters i..j, clamped to the string.
Sub(s, i, j) ==
  IF i > j \/ i > Len(s) \/ j < 1 THEN ""
  ELSE SubSeq(s, IF i < 1 THEN 1 ELSE i, IF j > Len(s) THEN Len(s) ELSE j)

Ch(s, i) == Sub(s, i, i)
From(s, i) == Sub(s, i, Len(s))
StartsAt(s, i, lit) == Sub(s, i, i + Len(lit) - 1) = lit

UpperAlpha == "ABCDEFGHIJKLMNOPQRSTUVWXYZ"
LowerAlpha == "abcdefghijklmnopqrstuvwxyz"
UpperLetters == {Ch(UpperAlpha, k) : k \in 1..26}
LowerLetters == {Ch(LowerAlpha, k) : k \in 1..26}
IsUpper(c) == c \in UpperLetters
IsLowerCh(c) == c \in LowerLetters
IsAlpha(c) == IsUpper(c) \/ IsLowerCh(c)
LowerCh(c) ==
  IF IsUpper(c) THEN Ch(LowerAlpha, CHOOSE k \in 1..26 : Ch(UpperAlpha, k) = c) ELSE c

\* pieces[lo] \o ... \o pieces[hi], by halves.
RECURSIVE Cat(_, _, _)
Cat(pieces, lo, hi) ==
  IF lo > hi THEN ""
  ELSE IF lo = hi THEN pieces[lo]
  ELSE Cat(pieces, lo, (lo + hi) \div 2) \o Cat(pieces, (lo + hi) \div 2 + 1, hi)

Concat(pieces) == Cat(pieces, 1, Len(pieces))

\* s.toLowerCase()
ToLower(s) == Concat([i \in 1..Len(s) |-> LowerCh(Ch(s, i))])

\* lit is lower case: the case-insensitive literal of an /i expression.
StartsAtCI(s, i, lit) ==
  /\ i + Len(lit) - 1 <= Len(s)
  /\ \A k \in 1..Len(lit) : LowerCh(Ch(s, i + k - 1)) = Ch(lit, k)

IsWs(c) == c \in {" ", "\t", "\n"}
IsSpace(c) == c \in {" ", "\t"}
IsDigit(c) == c \in {"0", "1", "2", "3", "4", "5", "6", "7", "8", "9"}
IsDigitOrComma(c) == IsDigit(c) \/ c = ","
IsDigitOrDot(c) == IsDigit(c) \/ c = "."
IsBullet(c) == c \in {BULLET, "-", "*"}

\* The position after the longest run of characters of class P that starts at i.
\* The first character outside the class is looked for among the next twelve
\* characters first, then in the rest of the string.
SpanEnd(s, i, P(_)) ==
  IF \E k \in i..(i + 12) : k <= Len(s) /\ ~P(Ch(s, k))
  THEN Min({k \in i..(i + 12) : k <= Len(s) /\ ~P(Ch(s, k))})
  ELSE Min({k \in (i + 13)..Len(s) : ~P(Ch(s, k))} \cup {Len(s) + 1})

SkipWs(s, i) == SpanEnd(s, i, IsWs)

\* s.trim(), s.trimStart(), s.trimEnd()
TrimStart(s) == From(s, SkipWs(s, 1))
TrimEnd(s) ==
  Sub(s, 1, Max({k \in 1..Len(s) : ~IsWs(Ch(s, k))} \cup {0}))
Trim(s) == TrimStart(TrimEnd(s))

\* s.indexOf(sub) + 1, or 0 when sub does not occur.
IndexOf(s, sub) ==
  With([hits \in {{i \in 1..(Len(s) - Len(sub) + 1) : StartsAt(s, i, sub)}} |->
      IF sub = "" THEN 1 ELSE IF hits = {} THEN 0 ELSE Min(hits)])

\* s.replace(sub, ""): the first occurrence of the string sub is removed.
RemoveFirst(s, sub) ==
  With([i \in {IndexOf(s, sub)} |->
      IF i = 0 THEN s ELSE Sub(s, 1, i - 1) \o From(s, i + Len(sub))])

\* s.split("\n")
LineStarts(s) == {1} \cup {i + 1 : i \in {k \in 1..Len(s) : Ch(s, k) = "\n"}}
LineEndAt(s, i) == Min({k \in i..Len(s) : Ch(s, k) = "\n"} \cup {Len(s) + 1}) - 1
Nth(S, n) == CHOOSE x \in S : Cardinality({y \in S : y < x}) = n - 1
Split(s) ==
  With([st \in {LineStarts(s)} |->
      [n \in 1..Cardinality(st) |-> Sub(s, Nth(st, n), LineEndAt(s, Nth(st, n)))]])

\* lines.join("\n")
Join(lines) ==
  Concat([i \in 1..Len(lines) |-> IF i = 1 THEN lines[i] ELSE "\n" \o lines[i]])

\* ------------------------------------------------------------------------
\* Numbers
\* ------------------------------------------------------------------------
DigitVal(c) == CHOOSE d \in 0..9 : Ch("0123456789", d + 1) = c

RECURSIVE DigitsVal(_)
DigitsVal(s) ==
  IF s = "" THEN 0 ELSE DigitsVal(Sub(s, 1, Len(s) - 1)) * 10 + DigitVal(Ch(s, Len(s)))

KeepCommas(s) == s
\* s.replace(/,/g, "")
StripCommas(s) == Concat([i \in 1..Len(s) |-> IF Ch(s, i) = "," THEN "" ELSE Ch(s, i)])

\* parseFloat(s) for a string of digits and dots: the longest prefix
\* digits [. digits] with at least one digit, in hundredths; NaN otherwise.
ParseFloat(s) ==
  With([e1 \in {SpanEnd(s, 1, IsDigit)} |->
  With([ip \in {Sub(s, 1, e1 - 1)} |->
  With([e2 \in {IF Ch(s, e1) = "." THEN SpanEnd(s, e1 + 1, IsDigit) ELSE e1} |->
  With([fp \in {IF Ch(s, e1) = "." THEN Sub(s, e1 + 1, e2 - 1) ELSE ""} |->
  With([f2 \in {Sub(fp \o "00", 1, 2)} |->
      IF ip = "" /\ fp = "" THEN NaN ELSE DigitsVal(ip) * 100 + DigitsVal(f2)])])])])])

\* parseInt(s) for a string of digits, in hundredths.
ParseInt(s) ==
  With([e1 \in {SpanEnd(s, 1, IsDigit)} |->
      IF e1 = 1 THEN NaN ELSE DigitsVal(Sub(s, 1, e1 - 1)) * 100])

\* The position after [\d,]+(?:\.\d+)? matched at i, or 0 when it does not match.
NumEnd(s, i) ==
  With([e1 \in {SpanEnd(s, i, IsDigitOrComma)} |->
  With([e2 \in {
            IF Ch(s, e1) = "." /\ IsDigit(Ch(s, e1 + 1))
            THEN SpanEnd(s, e1 + 1, IsDigit) ELSE e1} |->
      IF e1 = i THEN 0 ELSE e2])])

\* ------------------------------------------------------------------------
\* extractHeadline
\* ------------------------------------------------------------------------
NoMatch == [ok |-> FALSE, from |-> 0, to |-> 0, g1 |-> ""]

\* (.+?)(?:\*\*)?$ with the group starting at g: the group runs to the end of
\* g's line, less one closing ** (the lazy group stops as soon as ** and the
\* end of the line follow it).
HeadlineGroup(s, p, g) ==
  With([e \in {LineEndAt(s, g)} |->
  With([T \in {Sub(s, g, e)} |->
  With([closed \in {Len(T) >= 3 /\ StartsAt(T, Len(T) - 1, "**")} |->
      [ok |-> TRUE, from |-> p, to |-> e,
       g1 |-> IF closed THEN Sub(T, 1, Len(T) - 2) ELSE T]])])])

\* \s*(.+?)(?:\*\*)?$ from position a: \s* is greedy and also crosses line
\* ends; it gives characters back until the group can start on a character
\* that is not a line end.
HeadlineRest(s, p, a) ==
  With([w \in {SkipWs(s, a)} |->
  With([back \in {{g \in a..Len(s) : g <= w /\ Ch(s, g) # "\n"}} |->
      IF w <= Len(s) THEN HeadlineGroup(s, p, w)
      ELSE IF back # {} THEN HeadlineGroup(s, p, Max(back))
      ELSE NoMatch])])

\* PATTERNS.headline matched at the line start p:
\* ^(?:#{1,3}\s*)?(?:\*\*)?HEADLINE:?\s*(.+?)(?:\*\*)?$  with flags i, m.
HeadlineAt(s, p) ==
  With([n \in {SpanEnd(s, p, LAMBDA c : c = "#") - p} |->
  With([q \in {IF n = 0 THEN p ELSE SkipWs(s, p + n)} |->
  With([q2 \in {IF StartsAt(s, q, "**") THEN q + 2 ELSE q} |->
  With([r \in {q2 + 8} |->
  With([withColon \in {IF Ch(s, r) = ":" THEN HeadlineRest(s, p, r + 1) ELSE NoMatch} |->
      IF n > 3 \/ ~StartsAtCI(s, q2, "headline") THEN NoMatch
      ELSE IF withColon.ok THEN withColon
      ELSE HeadlineRest(s, p, r)])])])])])

\* text.match(PATTERNS.headline): the leftmost match.
HeadlineMatch(s) ==
  With([hits \in {{p \in LineStarts(s) : HeadlineAt(s, p).ok}} |->
      IF hits = {} THEN NoMatch ELSE HeadlineAt(s, Min(hits))])

\* s.replace(/^\*\*\s*/, '')
StripLeadingBold(s) == IF StartsAt(s, 1, "**") THEN From(s, SkipWs(s, 3)) ELSE s

\* s.replace(/\s*\*\*$/, '')
StripTrailingBold(s) ==
  IF Len(s) >= 2 /\ StartsAt(s, Len(s) - 1, "**")
  THEN TrimEnd(Sub(s, 1, Len(s) - 2)) ELSE s

CleanHeadline(g1) == StripTrailingBold(StripLeadingBold(Trim(g1)))

\* text.match(PATTERNS.boldHeadline) with match.index === 0:
\* ^\*\*([^*\n]+)\*\*$ on the first line.
BoldHeadlineMatch(s) ==
  With([e \in {LineEndAt(s, 1)} |->
  With([inner \in {Sub(s, 3, e - 2)} |->
      IF /\ e >= 5
         /\ StartsAt(s, 1, "**")
         /\ StartsAt(s, e - 1, "**")
         /\ \A k \in 1..Len(inner) : Ch(inner, k) # "*"
      THEN [ok |-> TRUE, from |-> 1, to |-> e, g1 |-> inner]
      ELSE NoMatch])])

\* The headline is "" when there is none: the caller tests its truth value.
extractHeadline(s) ==
  With([m \in {HeadlineMatch(s)} |->
  With([b \in {BoldHeadlineMatch(s)} |->
      IF m.ok
      THEN [headline |-> CleanHeadline(m.g1),
            remainingText |-> Trim(RemoveFirst(s, Sub(s, m.from, m.to)))]
      ELSE IF b.ok
      THEN [headline |-> Trim(b.g1),
            remainingText |-> Trim(RemoveFirst(s, Sub(s, b.from, b.to)))]
      ELSE [headline |-> "", remainingText |-> s]])])

\* ------------------------------------------------------------------------
\* Pieces of regular expressions.  Each takes the position i where the piece
\* starts and gives the position after it; 0 is "no match" and is passed on.
\* ------------------------------------------------------------------------
LitCI(s, i, lit) == IF i # 0 /\ StartsAtCI(s, i, lit) THEN i + Len(lit) ELSE 0
Lit(s, i, lit) == IF i # 0 /\ StartsAt(s, i, lit) THEN i + Len(lit) ELSE 0
OptLitCI(s, i, lit) == IF i = 0 THEN 0 ELSE IF StartsAtCI(s, i, lit) THEN i + Len(lit) ELSE i
Ws0(s, i) == IF i = 0 THEN 0 ELSE SkipWs(s, i)
Ws1(s, i) == IF i = 0 \/ SkipWs(s, i) = i THEN 0 ELSE SkipWs(s, i)
Num(s, i) == IF i = 0 THEN 0 ELSE NumEnd(s, i)
Span1(s, i, P(_)) == IF i = 0 \/ SpanEnd(s, i, P) = i THEN 0 ELSE SpanEnd(s, i, P)
\* (?:lit\s+)?
OptWord(s, i, lit) == IF i = 0 THEN 0 ELSE IF Ws1(s, LitCI(s, i, lit)) # 0 THEN Ws1(s, LitCI(s, i, lit)) ELSE i
\* The first alternative of lits (in order) that matches at i.
AltCI(s, i, lits) ==
  With([ok \in {{k \in 1..Len(lits) : LitCI(s, i, lits[k]) # 0}} |->
      IF ok = {} THEN 0 ELSE LitCI(s, i, lits[Min(ok)])])
IsWordCh(c) == IsAlpha(c) \/ IsDigit(c) \/ c = "_"

\* ------------------------------------------------------------------------
\* normalizeKPILabel, normalizeUnit
\* ------------------------------------------------------------------------
normalizeKPILabel(label) ==
  With([cleanLabel \in {Trim(ToLower(label))} |->
      CASE cleanLabel \in {"revenue", "gmv", "total sales", "sales"} -> "Revenue"
        [] cleanLabel \in {"orders", "order"} -> "Orders"
        [] cleanLabel \in {"aov", "avg order", "average order value"} -> "Avg Order"
        [] cleanLabel \in {"units", "unit"} -> "Units Sold"
        [] cleanLabel \in {"customers", "customer"} -> "Customers"
        [] cleanLabel = "share" -> "Share"
        [] cleanLabel \in {"approval", "approval rate"} -> "Approval Rate"
        [] cleanLabel = "discount" -> "Discount"
        [] cleanLabel \in {"split rate", "split"} -> "Split Rate"
        [] cleanLabel = "total" -> "Total"
        [] cleanLabel \in {"avg", "average"} -> "Average"
        [] cleanLabel \in {"tips", "tip"} -> "Tips"
        [] OTHER -> label])

normalizeUnit(unit) ==
  With([u \in {ToLower(unit)} |->
      IF u = "egp" \/ u = "" THEN "EGP"
      ELSE IF u = "%" \/ u = "percent" THEN "%"
      ELSE IF IndexOf(u, "unit") # 0 THEN "units"
      ELSE unit])

\* ------------------------------------------------------------------------
\* extractKPIs: the patterns, tried on one trimmed line
\* ------------------------------------------------------------------------
\* A KPI value: a number, or the raw string kept when the number is NaN.
NumVal(n) == [isNum |-> TRUE, n |-> n, raw |-> ""]
RawVal(r) == [isNum |-> FALSE, n |-> 0, raw |-> r]
NoTrend == [direction |-> "none", value |-> 0, label |-> ""]
Card(label, value, unit, trend) ==
  [label |-> label, value |-> value, unit |-> unit, trend |-> trend]

\* ^([\d,]+(?:\.\d+)?)\s*EGP\s+  : the position after it, the number ending at NumEnd(t, 1)
AmountEGP(t) == Ws1(t, LitCI(t, Ws0(t, Num(t, 1)), "egp"))

\* PATTERN 1: ^(amount)\s*EGP\s+(?:GMV|total\s+sales|revenue)\s+from\s+(\d+)\s+(?:successful\s+)?orders
GmvOrders(t) ==
  With([a \in {AmountEGP(t)} |->
  With([metric \in {
                IF LitCI(t, a, "gmv") # 0 THEN LitCI(t, a, "gmv")
                ELSE IF LitCI(t, Ws1(t, LitCI(t, a, "total")), "sales") # 0
                THEN LitCI(t, Ws1(t, LitCI(t, a, "total")), "sales")
                ELSE LitCI(t, a, "revenue")} |->
  With([n1 \in {Ws1(t, LitCI(t, Ws1(t, metric), "from"))} |->
  With([n2 \in {Span1(t, n1, IsDigit)} |->
  With([e \in {LitCI(t, OptWord(t, Ws1(t, n2), "successful"), "orders")} |->
      [ok |-> e # 0, g1 |-> Sub(t, 1, NumEnd(t, 1) - 1), g2 |-> Sub(t, n1, n2 - 1)]])])])])])

\* PATTERN 2: ^(amount)\s*EGP\s+AOV\b
Aov(t) ==
  With([e \in {LitCI(t, AmountEGP(t), "aov")} |->
      [ok |-> e # 0 /\ ~IsWordCh(Ch(t, e)), g1 |-> Sub(t, 1, NumEnd(t, 1) - 1)]])

\* PATTERN 3: ^([\d.]+)%\s+(?:payment\s+)?approval\s*(?:rate)?
\*         or ^Approval\s*(?:rate)?:\s*([\d.]+)%
Approval(t) ==
  With([d1 \in {Span1(t, 1, IsDigitOrDot)} |->
  With([e1 \in {LitCI(t, OptWord(t, Ws1(t, Lit(t, d1, "%")), "payment"), "approval")} |->
  With([n2 \in {Ws0(t, Lit(t, OptLitCI(t, Ws0(t, LitCI(t, 1, "approval")), "rate"), ":"))} |->
  With([d2 \in {Span1(t, n2, IsDigitOrDot)} |->
  With([e2 \in {Lit(t, d2, "%")} |->
      IF e1 # 0 THEN [ok |-> TRUE, g1 |-> Sub(t, 1, d1 - 1)]
      ELSE [ok |-> e2 # 0, g1 |-> Sub(t, n2, d2 - 1)]])])])])])

\* PATTERN 4: ^(amount)\s*EGP\s+(?:in\s+)?tips  or  ^Tips?:\s*(amount)\s*EGP
Tips(t) ==
  With([e1 \in {LitCI(t, OptWord(t, AmountEGP(t), "in"), "tips")} |->
  With([n2 \in {Ws0(t, Lit(t, OptLitCI(t, LitCI(t, 1, "tip"), "s"), ":"))} |->
  With([d2 \in {Num(t, n2)} |->
  With([e2 \in {LitCI(t, Ws0(t, d2), "egp")} |->
      IF e1 # 0 THEN [ok |-> TRUE, g1 |-> Sub(t, 1, NumEnd(t, 1) - 1)]
      ELSE [ok |-> e2 # 0, g1 |-> Sub(t, n2, d2 - 1)]])])])])

\* PATTERN 5: ^([\d.]+)%\s+(?:of\s+)?(?:orders?\s+had\s+)?split\s*(?:payments?|rate)?
\*         or ^Split\s*(?:rate)?:\s*([\d.]+)%
SplitRate(t) ==
  With([a \in {OptWord(t, Ws1(t, Lit(t, Span1(t, 1, IsDigitOrDot), "%")), "of")} |->
  With([oh \in {Ws1(t, LitCI(t, Ws1(t, OptLitCI(t, LitCI(t, a, "order"), "s")), "had"))} |->
  With([e1 \in {LitCI(t, IF oh # 0 THEN oh ELSE a, "split")} |->
  With([n2 \in {Ws0(t, Lit(t, OptLitCI(t, Ws0(t, LitCI(t, 1, "split")), "rate"), ":"))} |->
  With([e2 \in {Lit(t, Span1(t, n2, IsDigitOrDot), "%")} |->
      e1 # 0 \/ e2 # 0])])])])])

\* The label alternatives of PATTERN 6, each followed by ":"
\* (GMV|Revenue|Orders?|AOV|Units?|Customers?|Total\s*Sales?|Tips?):
BulletLabelEnd(t, i) ==
  LET plural(w) ==
                   OptLitCI(t, LitCI(t, i, w), "s")
  IN
  With([cands \in {
               << LitCI(t, i, "gmv"), LitCI(t, i, "revenue"), plural("order"),
                  LitCI(t, i, "aov"), plural("unit"), plural("customer"),
                  OptLitCI(t, LitCI(t, Ws0(t, LitCI(t, i, "total")), "sale"), "s"),
                  plural("tip") >>} |->
  With([ok \in {{k \in 1..Len(cands) : Lit(t, cands[k], ":") # 0}} |->
      IF ok = {} THEN 0 ELSE cands[Min(ok)]])])

\* ([+-]?\d+(?:\.\d+)?%?) at i: the position after it, or 0.
TrendValEnd(t, i) ==
  With([a \in {IF Ch(t, i) \in {"+", "-"} THEN i + 1 ELSE i} |->
  With([b \in {Span1(t, a, IsDigit)} |->
  With([c \in {
           IF b # 0 /\ Ch(t, b) = "." /\ IsDigit(Ch(t, b + 1))
           THEN SpanEnd(t, b + 1, IsDigit) ELSE b} |->
      IF b = 0 THEN 0 ELSE IF Ch(t, c) = "%" THEN c + 1 ELSE c])])])

\* s.replace("%", "").replace("+", "").replace("-", "")
StripSigns(s) == RemoveFirst(RemoveFirst(RemoveFirst(s, "%"), "+"), "-")

\* PATTERN 6: ^[bullet]\s*(label):\s*(amount)\s*(EGP|%|units?)?\s*([up|down])?\s*(trend value)?
BulletKpi(t) ==
  With([l0 \in {IF IsBullet(Ch(t, 1)) THEN SkipWs(t, 2) ELSE 0} |->
  With([l1 \in {IF l0 = 0 THEN 0 ELSE BulletLabelEnd(t, l0)} |->
  With([v0 \in {Ws0(t, Lit(t, l1, ":"))} |->
  With([v1 \in {Num(t, v0)} |->
  With([u0 \in {Ws0(t, v1)} |->
  With([u1 \in {
            IF LitCI(t, u0, "egp") # 0 THEN LitCI(t, u0, "egp")
            ELSE IF Lit(t, u0, "%") # 0 THEN Lit(t, u0, "%")
            ELSE IF LitCI(t, u0, "unit") # 0 THEN OptLitCI(t, LitCI(t, u0, "unit"), "s")
            ELSE u0} |->
  With([d0 \in {Ws0(t, u1)} |->
  With([d1 \in {IF Ch(t, d0) \in {UP, DOWN} THEN d0 + 1 ELSE d0} |->
  With([t0 \in {Ws0(t, d1)} |->
  With([t1 \in {IF TrendValEnd(t, t0) # 0 THEN TrendValEnd(t, t0) ELSE t0} |->
  With([rawValue \in {StripCommas(Sub(t, v0, v1 - 1))} |->
  With([value \in {ParseFloat(rawValue)} |->
  With([trendDir \in {Sub(t, d0, d1 - 1)} |->
  With([trendVal \in {Sub(t, t0, t1 - 1)} |->
      [ok |-> v1 # 0,
       label |-> Trim(Sub(t, l0, l1 - 1)),
       value |-> IF value = NaN THEN RawVal(rawValue) ELSE NumVal(value),
       unit |-> Sub(t, u0, u1 - 1),
       trend |-> IF trendDir # "" /\ trendVal # ""
                 THEN [direction |-> IF trendDir = UP THEN "up" ELSE "down",
                       value |-> ParseFloat(StripSigns(trendVal)),
                       label |-> "vs last period"]
                 ELSE NoTrend]])])])])])])])])])])])])])])

\* What one trimmed line asks addKPI to add, in order; matched tells whether any
\* pattern (the split-rate pattern included) matched the line.
KpiLine(t) ==
  With([p1 \in {GmvOrders(t)} |->
  With([p2 \in {Aov(t)} |->
  With([p3 \in {Approval(t)} |->
  With([p4 \in {Tips(t)} |->
  With([p6 \in {BulletKpi(t)} |->
      IF p1.ok THEN
        [matched |-> TRUE,
         cards |-> << Card("Revenue", NumVal(ParseFloat(StripCommas(p1.g1))), "EGP", NoTrend),
                      Card("Orders", NumVal(ParseInt(p1.g2)), "", NoTrend) >>]
      ELSE IF p2.ok THEN
        [matched |-> TRUE,
         cards |-> << Card("Avg Order", NumVal(ParseFloat(StripCommas(p2.g1))), "EGP", NoTrend) >>]
      ELSE IF p3.ok THEN
        [matched |-> TRUE,
         cards |-> << Card("Approval Rate", NumVal(ParseFloat(p3.g1)), "%", NoTrend) >>]
      ELSE IF p4.ok THEN
        [matched |-> TRUE,
         cards |-> << Card("Tips", NumVal(ParseFloat(StripCommas(p4.g1))), "EGP", NoTrend) >>]
      ELSE IF SplitRate(t) THEN [matched |-> TRUE, cards |-> << >>]
      ELSE IF p6.ok THEN
        [matched |-> TRUE, cards |-> << Card(p6.label, p6.value, p6.unit, p6.trend) >>]
      ELSE [matched |-> FALSE, cards |-> << >>]])])])])])

\* ------------------------------------------------------------------------
\* extractKPIs: addKPI, the loop over the lines, the clean-up of the text
\* ------------------------------------------------------------------------
SeenKeyRaw(label) == ToLower(label)
\* The label under which addKPI files a card in seenLabels.
SeenKey(label) == ToLower(normalizeKPILabel(label))

\* addKPI(label, value, unit, matchedText, trend) on the accumulator
\* [kpis, seenLabels, matchedLines]; matchedLines keeps insertion order.
addKPI(acc, card, matchedText) ==
  IF SeenKey(card.label) \in acc.seenLabels THEN acc
  ELSE [kpis |-> Append(acc.kpis,
                        Card(normalizeKPILabel(card.label), card.value,
                             normalizeUnit(card.unit), card.trend)),
        seenLabels |-> acc.seenLabels \cup {SeenKey(card.label)},
        matchedLines |-> IF \E k \in 1..Len(acc.matchedLines) :
                              acc.matchedLines[k] = Trim(matchedText)
                         THEN acc.matchedLines
                         ELSE Append(acc.matchedLines, Trim(matchedText))]

RECURSIVE AddCards(_, _, _)
AddCards(acc, cards, matchedText) ==
  IF cards = << >> THEN acc
  ELSE AddCards(addKPI(acc, Head(cards), matchedText), Tail(cards), matchedText)

\* for (const line of lines) { ... }
KpiStep(acc, line) ==
  With([trimmedLine \in {Trim(line)} |->
      IF trimmedLine = "" THEN acc
      ELSE AddCards(acc, KpiLine(trimmedLine).cards, trimmedLine)])

RECURSIVE KpiLoop(_, _, _)
KpiLoop(lines, k, acc) ==
  IF k > Len(lines) THEN acc
  ELSE KpiLoop(lines, k + 1, KpiStep(acc, lines[k]))

\* ^[bullet]?\s*<matchedLine>\s*$ (flag m) matched at the line start p: the
\* position after the match, or 0.  \s* crosses line ends; the closing \s*
\* gives characters back to the last line end it passed.
MatchedTail(s, a, x) ==
  With([b \in {a + Len(x)} |->
  With([w \in {SkipWs(s, b)} |->
  With([ends \in {{k \in b..w : k = Len(s) + 1 \/ Ch(s, k) = "\n"}} |->
      IF StartsAt(s, a, x) /\ ends # {} THEN Max(ends) ELSE 0])])])

MatchedLineEnd(s, p, x) ==
  With([withBullet \in {IF IsBullet(Ch(s, p)) THEN MatchedTail(s, SkipWs(s, p + 1), x) ELSE 0} |->
      IF withBullet # 0 THEN withBullet ELSE MatchedTail(s, SkipWs(s, p), x)])

\* s.replace(new RegExp("^[bullet]?\\s*" + escapeRegex(x) + "\\s*$", "gm"), "")
\* from position from on.
RECURSIVE RemoveMatchedLines(_, _, _)
RemoveMatchedLines(s, x, from) ==
  With([hits \in {{p \in LineStarts(s) : p >= from /\ p <= Len(s) /\ MatchedLineEnd(s, p, x) # 0}} |->
      IF hits = {} THEN From(s, from)
      ELSE Sub(s, from, Min(hits) - 1)
           \o RemoveMatchedLines(s, x, MatchedLineEnd(s, Min(hits), x))])

RECURSIVE RemoveAllMatched(_, _)
KeepAllMatched(s, matchedLines) == s
RemoveAllMatched(s, matchedLines) ==
  IF matchedLines = << >> THEN s
  ELSE RemoveAllMatched(
         RemoveFirst(RemoveMatchedLines(s, Head(matchedLines), 1), Head(matchedLines)),
         Tail(matchedLines))

\* s.replace(/(?:THE NUMBERS|KEY METRICS|METRICS)[^:]*:\s*\n?/im, "")
RemoveNumbersHeader(s) ==
  LET isHdr(p) ==
                  \/ StartsAtCI(s, p, "the numbers")
                  \/ StartsAtCI(s, p, "key metrics")
                  \/ StartsAtCI(s, p, "metrics")
  IN
  With([colons \in {{c \in 1..Len(s) : Ch(s, c) = ":"}} |->
  With([hits \in {{p \in 1..Len(s) : isHdr(p) /\ \E c \in colons : c > p}} |->
  With([p0 \in {Min(hits)} |->
  With([c0 \in {Min({c \in colons : c > p0})} |->
      IF hits = {} THEN s ELSE Sub(s, 1, p0 - 1) \o From(s, SkipWs(s, c0 + 1))])])])])

\* s.replace(/\n{3,}/g, "\n\n")
CollapseNewlines(s) ==
  Concat([i \in 1..Len(s) |->
            IF Ch(s, i) = "\n" /\ Ch(s, i - 1) = "\n" /\ Ch(s, i - 2) = "\n"
            THEN "" ELSE Ch(s, i)])

extractKPIs(s) ==
  With([acc \in {KpiLoop(Split(s), 1, [kpis |-> << >>, seenLabels |-> {}, matchedLines |-> << >>])} |->
      [kpis |-> acc.kpis,
       remainingText |->
         Trim(CollapseNewlines(RemoveNumbersHeader(RemoveAllMatched(s, acc.matchedLines))))]])

\* ------------------------------------------------------------------------
\* extractChartData
\* ------------------------------------------------------------------------
Point(name, value, label) == [name |-> name, value |-> value, label |-> label]

\* name.length > 20 ? name.substring(0, 17) + "..." : name
DisplayName(name) == IF Len(name) > 20 THEN Sub(name, 1, 17) \o "..." ELSE name

\* The chart accumulator: chartData and seenNames.
PushPoint(acc, name, value, label) ==
  [chartData |-> Append(acc.chartData, Point(DisplayName(name), value, label)),
   seenNames |-> acc.seenNames \cup {ToLower(name)}]

\* /^(w1|w2|...)/i.test(name)
HasPrefixCI(name, words) == \E k \in 1..Len(words) : StartsAtCI(name, 1, words[k])

Tier1Blocklist ==
  << "gmv", "revenue", "order", "aov", "approval", "split", "total", "key", "the",
     "this", "tip", "impact", "payment", "sales" >>

\* The optional icon of the item lines: the position after it.
ItemIcons == << FIRE, STARICON, PUZZLEICON, DOGICON, BARS, WARN >>
IconEnd(t, i) ==
  With([ok \in {{k \in 1..Len(ItemIcons) : StartsAt(t, i, ItemIcons[k])}} |->
      IF ok = {} THEN i ELSE i + Len(ItemIcons[Min(ok)])])

\* ^[-bullet*]\s*(?:icon)?\s*([^:\n]+?):  on a trimmed line: the group, or
\* ok = FALSE.  The group is lazy and ends before the first colon after its
\* start; when the greedy start stands on the colon, the expression backs up:
\* first into the white space before it, then to the icon, then into the
\* white space after the bullet.
ItemName(t) ==
  With([w1 \in {SkipWs(t, 2)} |->
  With([ic \in {IconEnd(t, w1)} |->
  With([g0 \in {SkipWs(t, ic)} |->
  With([colons \in {{c \in 2..Len(t) : Ch(t, c) = ":"}} |->
  With([start \in {
               IF Ch(t, g0) # ":" THEN g0
               ELSE IF g0 > ic THEN g0 - 1
               ELSE IF ic > w1 THEN w1
               ELSE IF w1 > 2 THEN w1 - 1
               ELSE 0} |->
  With([after \in {{c \in colons : c > start}} |->
      IF ~IsBullet(Ch(t, 1)) \/ start = 0 \/ after = {}
      THEN [ok |-> FALSE, g1 |-> ""]
      ELSE [ok |-> TRUE, g1 |-> Sub(t, start, Min(after) - 1)]])])])])])])

\* ([\d,]+(?:\.\d+)?)\s*EGP with flag i, matched at p: the position after, or 0.
EgpEnd(t, p) == LitCI(t, Ws0(t, Num(t, p)), "egp")

\* [...t.matchAll(/([\d,]+(?:\.\d+)?)\s*EGP/gi)]: the parsed amounts, in order.
RECURSIVE EgpAmounts(_, _)
EgpAmounts(t, from) ==
  With([hits \in {{p \in from..Len(t) : EgpEnd(t, p) # 0}} |->
  With([p0 \in {Min(hits)} |->
      IF hits = {} THEN << >>
      ELSE << ParseFloat(StripCommas(Sub(t, p0, NumEnd(t, p0) - 1))) >>
           \o EgpAmounts(t, EgpEnd(t, p0))])])

\* The first loop: the largest amount that is >= 100 (0 when there is none).
LargeCutoff == 10000   \* 100, in hundredths
RECURSIVE MaxLarge(_, _)
MaxLarge(vals, maxValue) ==
  IF vals = << >> THEN maxValue
  ELSE MaxLarge(Tail(vals),
                IF Head(vals) > maxValue /\ Head(vals) >= LargeCutoff
                THEN Head(vals) ELSE maxValue)

RECURSIVE MaxAny(_, _)
\* No second loop.
MaxAnySkipped(vals, maxValue) == maxValue
\* The second loop: the largest amount.
MaxAny(vals, maxValue) ==
  IF vals = << >> THEN maxValue
  ELSE MaxAny(Tail(vals), IF Head(vals) > maxValue THEN Head(vals) ELSE maxValue)

FirstAmount(vals) == Head(vals)
LineValue(vals) == IF MaxLarge(vals, 0) = 0 THEN MaxAny(vals, 0) ELSE MaxLarge(vals, 0)

\* One line of the primary loop.
Tier1Line(acc, line) ==
  With([trimmedLine \in {Trim(line)} |->
  With([nameMatch \in {ItemName(trimmedLine)} |->
  With([name \in {Trim(nameMatch.g1)} |->
  With([vals \in {EgpAmounts(trimmedLine, 1)} |->
      IF \/ ~IsBullet(Ch(trimmedLine, 1))
         \/ ~nameMatch.ok
         \/ HasPrefixCI(name, Tier1Blocklist)
         \/ ToLower(name) \in acc.seenNames
         \/ Len(name) < 2 \/ Len(name) > 50
         \/ vals = << >>
         \/ LineValue(vals) = 0
      THEN acc
      ELSE PushPoint(acc, name, LineValue(vals), "EGP")])])])])

RECURSIVE Tier1(_, _, _)
Tier1(lines, k, acc) ==
  IF k > Len(lines) THEN acc ELSE Tier1(lines, k + 1, Tier1Line(acc, lines[k]))

\* [A-Za-z &']
IsNameCh(c) == IsAlpha(c) \/ c \in {" ", "&", "'"}

Tier2Blocklist ==
  << "gmv", "revenue", "order", "aov", "approval", "split", "total", "key", "the",
     "tip", "impact", "payment", "sales" >>

\* ([A-Za-z][A-Za-z &']+?):\s*([\d,]+(?:\.\d+)?)\s*EGP with flag i, matched at p.
SimpleAt(s, p) ==
  With([e \in {SpanEnd(s, p + 1, IsNameCh)} |->
  With([n0 \in {Ws0(s, Lit(s, e, ":"))} |->
  With([n1 \in {Num(s, n0)} |->
  With([z \in {LitCI(s, Ws0(s, n1), "egp")} |->
      [ok |-> IsAlpha(Ch(s, p)) /\ e >= p + 2 /\ z # 0,
       g1 |-> Sub(s, p, e - 1), g2 |-> Sub(s, n0, n1 - 1), to |-> z]])])])])

\* The loop over simpleMatches: starts holds the positions at which the
\* expression matches, and the next match is the first of them from from on.
RECURSIVE Tier2Loop(_, _, _, _)
Tier2Loop(s, starts, from, acc) ==
  With([hits \in {{p \in starts : p >= from}} |->
  With([m \in {SimpleAt(s, Min(hits))} |->
  With([name \in {Trim(m.g1)} |->
  With([value \in {ParseFloat(StripCommas(m.g2))} |->
      IF hits = {} THEN acc
      ELSE Tier2Loop(s, starts, m.to,
                 IF \/ HasPrefixCI(name, Tier2Blocklist)
                    \/ ToLower(name) \in acc.seenNames
                    \/ value = NaN \/ value = 0
                    \/ Len(name) < 2 \/ Len(name) > 40
                 THEN acc
                 ELSE PushPoint(acc, name, value, "EGP"))])])])])

Tier2(s, from, acc) == Tier2Loop(s, {p \in from..Len(s) : SimpleAt(s, p).ok}, from, acc)

\* [\s:\-<en dash>] and [^:\-<en dash>]
IsSepCh(c) == IsWs(c) \/ c \in {":", "-", NDASH}
IsRankNameCh(c) == c # "" /\ c \notin {":", "-", NDASH}

\* PATTERNS.rankedItem matched at the line start p:
\* ^\s*(\d+)\.\s*([^:\-<en dash>]+?)[\s:\-<en dash>]+([\d,]+(?:\.\d+)?)\s*(EGP|units?|%)?
\* with flags g, m.  The name is lazy: it ends at the first separator run
\* that a number follows.  When the name cannot start after the white space
\* that follows the dot, it starts on the last character of that white space.
RankedAt(s, p) ==
  With([d0 \in {SkipWs(s, p)} |->
  With([d1 \in {Span1(s, d0, IsDigit)} |->
  With([dot \in {Lit(s, d1, ".")} |->
  With([g0 \in {Ws0(s, dot)} |->
  With([g \in {
            IF IsRankNameCh(Ch(s, g0)) THEN g0
            ELSE IF g0 > dot /\ Ch(s, g0) # "" THEN g0 - 1 ELSE 0} |->
  With([nameEnd \in {SpanEnd(s, g, IsRankNameCh)} |->
  With([ends \in {
              {e \in (g + 1)..nameEnd :
                 /\ SpanEnd(s, e, IsSepCh) > e
                 /\ IsDigitOrComma(Ch(s, SpanEnd(s, e, IsSepCh)))}} |->
  With([e0 \in {Min(ends)} |->
  With([n0 \in {SpanEnd(s, e0, IsSepCh)} |->
  With([n1 \in {NumEnd(s, n0)} |->
  With([u0 \in {SkipWs(s, n1)} |->
  With([u1 \in {
            IF Lit(s, u0, "EGP") # 0 THEN u0 + 3
            ELSE IF Lit(s, u0, "units") # 0 THEN u0 + 5
            ELSE IF Lit(s, u0, "unit") # 0 THEN u0 + 4
            ELSE IF Lit(s, u0, "%") # 0 THEN u0 + 1
            ELSE u0} |->
      IF dot = 0 \/ g = 0 \/ ends = {}
      THEN [ok |-> FALSE, g2 |-> "", g3 |-> "", g4 |-> "", to |-> 0]
      ELSE [ok |-> TRUE, g2 |-> Sub(s, g, e0 - 1), g3 |-> Sub(s, n0, n1 - 1),
            g4 |-> Sub(s, u0, u1 - 1), to |-> u1]])])])])])])])])])])])])

\* text.matchAll(PATTERNS.rankedItem) starts at the expression's lastIndex.
RECURSIVE Tier3Loop(_, _, _, _)
Tier3Loop(s, starts, from, acc) ==
  With([hits \in {{p \in starts : p >= from}} |->
  With([m \in {RankedAt(s, Min(hits))} |->
  With([name \in {Trim(m.g2)} |->
  With([value \in {ParseFloat(StripCommas(m.g3))} |->
      IF hits = {} THEN acc
      ELSE Tier3Loop(s, starts, m.to,
                 IF ToLower(name) \in acc.seenNames \/ value = NaN \/ value = 0
                 THEN acc
                 ELSE PushPoint(acc, name, value, m.g4))])])])])

Tier3(s, from, acc) ==
  Tier3Loop(s, {p \in LineStarts(s) : p >= from /\ p <= Len(s) /\ RankedAt(s, p).ok}, from, acc)

Tier4Blocklist ==
  << "total", "revenue", "gmv", "order", "aov", "sales", "headline", "item", "beef", "unit" >>

\* (?:\*\*)?\s*[:=]\s*([\d,]+(?:\.\d+)?)\s*(?:EGP|GMV) from position e: the
\* start and the end of the number and the end of the match, or 0.
FlexTail(s, e) ==
  With([e1 \in {IF StartsAt(s, e, "**") THEN e + 2 ELSE e} |->
  With([e2 \in {SkipWs(s, e1)} |->
  With([n0 \in {IF Ch(s, e2) \in {":", "="} THEN SkipWs(s, e2 + 1) ELSE 0} |->
  With([n1 \in {Num(s, n0)} |->
  With([z \in {AltCI(s, Ws0(s, n1), << "egp", "gmv" >>)} |->
      [n0 |-> n0, n1 |-> n1, to |-> z]])])])])])

\* flexPattern with its group starting at g:
\* \*?\*?([A-Za-z][A-Za-z &']+?)(?:\*\*)?\s*[:=]\s*([\d,]+(?:\.\d+)?)\s*(?:EGP|GMV)
FlexAt(s, g) ==
  With([runEnd \in {SpanEnd(s, g + 1, IsNameCh)} |->
  With([ends \in {{e \in (g + 2)..runEnd : FlexTail(s, e).to # 0}} |->
  With([e0 \in {Min(ends)} |->
  With([t \in {FlexTail(s, e0)} |->
      IF ~IsAlpha(Ch(s, g)) \/ ends = {}
      THEN [ok |-> FALSE, g1 |-> "", g2 |-> "", to |-> 0]
      ELSE [ok |-> TRUE, g1 |-> Sub(s, g, e0 - 1), g2 |-> Sub(s, t.n0, t.n1 - 1), to |-> t.to]])])])])

RECURSIVE Tier4Loop(_, _, _, _)
Tier4Loop(s, starts, from, acc) ==
  With([hits \in {{g \in starts : g >= from}} |->
  With([m \in {FlexAt(s, Min(hits))} |->
  With([name \in {Trim(m.g1)} |->
  With([value \in {ParseFloat(StripCommas(m.g2))} |->
      IF hits = {} THEN acc
      ELSE Tier4Loop(s, starts, m.to,
                 IF \/ HasPrefixCI(name, Tier4Blocklist)
                    \/ ToLower(name) \in acc.seenNames
                    \/ value = NaN \/ value = 0
                    \/ Len(name) < 3 \/ Len(name) > 40
                 THEN acc
                 ELSE PushPoint(acc, name, value, "EGP"))])])])])

Tier4(s, from, acc) == Tier4Loop(s, {g \in from..Len(s) : FlexAt(s, g).ok}, from, acc)

minItemsForChart == 3
MaxChartPoints == 8

\* The four tiers, each run whatever the tiers before it collected.
CollectAllTiers(s, rankedLastIndex) ==
  With([t1 \in {Tier1(Split(s), 1, [chartData |-> << >>, seenNames |-> {}])} |->
  With([t2 \in {Tier2(s, 1, t1)} |->
  With([t3 \in {Tier3(s, rankedLastIndex + 1, t2)} |->
  With([t4 \in {Tier4(s, 1, t3)} |->
      t4.chartData])])])])
\* The tiers in order; a fallback runs while fewer than 3 points are collected.
CollectChart(s, rankedLastIndex) ==
  With([t1 \in {Tier1(Split(s), 1, [chartData |-> << >>, seenNames |-> {}])} |->
  With([t2 \in {IF Len(t1.chartData) < minItemsForChart THEN Tier2(s, 1, t1) ELSE t1} |->
  With([t3 \in {
            IF Len(t2.chartData) < minItemsForChart
            THEN Tier3(s, rankedLastIndex + 1, t2) ELSE t2} |->
  With([t4 \in {IF Len(t3.chartData) < minItemsForChart THEN Tier4(s, 1, t3) ELSE t3} |->
      t4.chartData])])])])

extractAllChartData(s, rankedLastIndex) ==
  [chartData |-> CollectChart(s, rankedLastIndex), remainingText |-> s]
extractChartData(s, rankedLastIndex) ==
  With([chartData \in {CollectChart(s, rankedLastIndex)} |->
      [chartData |-> IF Len(chartData) >= minItemsForChart
                     THEN SubSeq(chartData, 1, Min({Len(chartData), MaxChartPoints}))
                     ELSE << >>,
       remainingText |-> s]])

\* ------------------------------------------------------------------------
\* extractMenuEngineering
\* ------------------------------------------------------------------------
MenuIcons == << STARICON, HORSE, PUZZLEICON, DOGICON >>
MenuIconEnd(s, i) ==
  With([ok \in {{k \in 1..Len(MenuIcons) : StartsAt(s, i, MenuIcons[k])}} |->
      IF ok = {} THEN i ELSE i + Len(MenuIcons[Min(ok)])])

Categories == << "star", "plowhorse", "puzzle", "dog" >>

\* PATTERNS.menuClass matched at p, which is position 1 or a line end:
\* (?:^|\n)\s*[-bullet*]?\s*(?:icon)?\s*(STAR|PLOWHORSE|PUZZLE|DOG)(?:\s*\([^)]+\))?:\s*(.+?)(?=\n|$)
\* with flags g, i and without m.  The white space after the colon also
\* crosses line ends; the items are the rest of the line the group starts on.
MenuAt(s, p) ==
  With([a0 \in {IF Ch(s, p) = "\n" THEN p + 1 ELSE IF p = 1 THEN 1 ELSE 0} |->
  With([a1 \in {Ws0(s, a0)} |->
  With([a2 \in {IF a1 # 0 /\ IsBullet(Ch(s, a1)) THEN a1 + 1 ELSE a1} |->
  With([c0 \in {Ws0(s, IF a2 = 0 THEN 0 ELSE MenuIconEnd(s, Ws0(s, a2)))} |->
  With([c1 \in {AltCI(s, c0, Categories)} |->
  With([q0 \in {Ws0(s, c1)} |->
  With([q1 \in {
            IF Ch(s, q0) = "(" /\ Ch(s, q0 + 1) \notin {")", ""}
            THEN Lit(s, SpanEnd(s, q0 + 1, LAMBDA c : c # ")" /\ c # ""), ")")
            ELSE 0} |->
  With([col \in {IF Lit(s, q1, ":") # 0 THEN Lit(s, q1, ":") ELSE Lit(s, c1, ":")} |->
  With([w \in {Ws0(s, col)} |->
  With([back \in {{g \in col..Len(s) : Ch(s, g) # "\n"}} |->
  With([g \in {
           IF col = 0 THEN 0
           ELSE IF w <= Len(s) THEN w
           ELSE IF back # {} THEN Max(back) ELSE 0} |->
      IF g = 0 THEN [ok |-> FALSE, from |-> 0, to |-> 0, g1 |-> "", g2 |-> ""]
      ELSE [ok |-> TRUE, from |-> p, to |-> LineEndAt(s, g),
            g1 |-> Sub(s, c0, c1 - 1), g2 |-> Sub(s, g, LineEndAt(s, g))]])])])])])])])])])])])

\* The separators of itemsStr.split(/,|\sand\s/): the first one at or after i,
\* as <<position, length>>, or <<0, 0>>.
NextItemSep(t, i) ==
  LET isAnd(k) ==
                  IsWs(Ch(t, k)) /\ StartsAt(t, k + 1, "and") /\ IsWs(Ch(t, k + 4))
  IN
  With([hits \in {{k \in i..Len(t) : Ch(t, k) = "," \/ isAnd(k)}} |->
      IF hits = {} THEN <<0, 0>>
      ELSE <<Min(hits), IF Ch(t, Min(hits)) = "," THEN 1 ELSE 5>>])

\* itemsStr.split(/,|\sand\s/).map(item => item.trim()).filter(Boolean)
RECURSIVE SplitItems(_, _)
SplitItems(t, i) ==
  With([sep \in {NextItemSep(t, i)} |->
  With([piece \in {Trim(IF sep[1] = 0 THEN From(t, i) ELSE Sub(t, i, sep[1] - 1))} |->
  With([rest \in {IF sep[1] = 0 THEN << >> ELSE SplitItems(t, sep[1] + sep[2])} |->
      (IF piece = "" THEN << >> ELSE << piece >>) \o rest])])])

ToUpper(x) ==
  Concat([i \in 1..Len(x) |->
            IF IsLowerCh(Ch(x, i))
            THEN Ch(UpperAlpha, CHOOSE k \in 1..26 : Ch(LowerAlpha, k) = Ch(x, i))
            ELSE Ch(x, i)])

\* existing ? existing.items.push(...items) : menuEng.push({category, items})
ReplaceItems(entry, items) == [category |-> entry.category, items |-> items]
AppendItems(entry, items) == [category |-> entry.category, items |-> entry.items \o items]

AddMenuItems(menuEng, category, items) ==
  IF \E k \in 1..Len(menuEng) : menuEng[k].category = category
  THEN [k \in 1..Len(menuEng) |->
          IF k = Min({j \in 1..Len(menuEng) : menuEng[j].category = category})
          THEN AppendItems(menuEng[k], items)
          ELSE menuEng[k]]
  ELSE Append(menuEng, [category |-> category, items |-> items])

\* The loop over text.matchAll(PATTERNS.menuClass), which starts at the
\* expression's lastIndex; every match[0] is removed from remainingText.
RECURSIVE MenuLoop(_, _, _)
MenuLoop(s, from, acc) ==
  With([hits \in {{p \in from..Len(s) : MenuAt(s, p).ok}} |->
  With([m \in {MenuAt(s, Min(hits))} |->
      IF hits = {} THEN acc
      ELSE MenuLoop(s, m.to + 1,
             [menuEng |-> AddMenuItems(acc.menuEng, ToUpper(m.g1), SplitItems(Trim(m.g2), 1)),
              remainingText |-> RemoveFirst(acc.remainingText, Sub(s, m.from, m.to))])])])

extractMenuEngineering(s, menuLastIndex) ==
  With([acc \in {MenuLoop(s, menuLastIndex + 1, [menuEng |-> << >>, remainingText |-> s])} |->
      [menuEng |-> acc.menuEng, remainingText |-> Trim(acc.remainingText)]])

\* ------------------------------------------------------------------------
\* extractAlerts
\* ------------------------------------------------------------------------
\* (?:[bullet\-\*].+\n?)+ from the line start b: the position after the last
\* character taken (the line end of the last bullet line included), or 0.
RECURSIVE BulletBlockEnd(_, _)
BulletBlockEnd(s, b) ==
  With([e \in {LineEndAt(s, b)} |->
  With([more \in {IF e + 1 <= Len(s) THEN BulletBlockEnd(s, e + 2) ELSE 0} |->
      IF ~(IsBullet(Ch(s, b)) /\ e >= b + 1) THEN 0
      ELSE IF more # 0 THEN more
      ELSE Min({e + 2, Len(s) + 1})])])

\* /ALERTS[^:]*:\s*\n((?:[bullet\-\*].+\n?)+)/im at p: group 1, or "".
AlertsSectionAt(s, p) ==
  With([colons \in {{c \in (p + 6)..Len(s) : Ch(s, c) = ":"}} |->
  With([c \in {Min(colons)} |->
  With([w \in {SkipWs(s, c + 1)} |->
      IF StartsAtCI(s, p, "alerts") /\ colons # {} /\ w - 1 > c /\ Ch(s, w - 1) = "\n"
         /\ BulletBlockEnd(s, w) # 0
      THEN Sub(s, w, BulletBlockEnd(s, w) - 1)
      ELSE ""])])])

AlertsSection(s) ==
  With([hits \in {{p \in 1..Len(s) : AlertsSectionAt(s, p) # ""}} |->
      IF hits = {} THEN "" ELSE AlertsSectionAt(s, Min(hits))])

\* line.match(/^[bullet\-\*]\s*([^:]+):\s*(\d+)\s*(?:qty|units?)?\s*vs\s*([\d.]+)
\*            \s*avg\s*([up down])\s*([\d.]+%?)\s*(?:arrow\s*(.+))?$/i)
AlertMatch(line) ==
  With([colons \in {{c \in 3..Len(line) : Ch(line, c) = ":"}} |->
  With([c \in {IF colons = {} \/ ~IsBullet(Ch(line, 1)) \/ Ch(line, 2) = ":" THEN 0 ELSE Min(colons)} |->
  With([q0 \in {Ws0(line, IF c = 0 THEN 0 ELSE c + 1)} |->
  With([q1 \in {Span1(line, q0, IsDigit)} |->
  With([u0 \in {Ws0(line, q1)} |->
  With([u1 \in {
            IF AltCI(line, u0, << "qty", "units", "unit" >>) # 0
               /\ LitCI(line, Ws0(line, AltCI(line, u0, << "qty", "units", "unit" >>)), "vs") # 0
            THEN AltCI(line, u0, << "qty", "units", "unit" >>)
            ELSE u0} |->
  With([a0 \in {Ws0(line, LitCI(line, Ws0(line, u1), "vs"))} |->
  With([a1 \in {Span1(line, a0, IsDigitOrDot)} |->
  With([d0 \in {Ws0(line, LitCI(line, Ws0(line, a1), "avg"))} |->
  With([d1 \in {IF d0 # 0 /\ Ch(line, d0) \in {UP, DOWN} THEN d0 + 1 ELSE 0} |->
  With([p0 \in {Ws0(line, d1)} |->
  With([p1 \in {Span1(line, p0, IsDigitOrDot)} |->
  With([p2 \in {IF p1 # 0 /\ Ch(line, p1) = "%" THEN p1 + 1 ELSE p1} |->
  With([t0 \in {Ws0(line, p2)} |->
  With([tailOk \in {t0 # 0 /\ (t0 = Len(line) + 1 \/ (Ch(line, t0) = ARROW /\ t0 < Len(line)))} |->
      IF ~tailOk THEN [ok |-> FALSE]
      ELSE [ok |-> TRUE,
            itemName |-> Trim(Sub(line, 2, c - 1)),
            currentQty |-> Sub(line, q0, q1 - 1),
            avgQty |-> Sub(line, a0, a1 - 1),
            direction |-> Ch(line, d0),
            changePercent |-> Sub(line, p0, p2 - 1),
            action |-> Trim(From(line, t0 + 1))]])])])])])])])])])])])])])])])

Insight(t, icon, type) == [text |-> t, icon |-> icon, type |-> type]

AlertText(m) ==
  "**" \o m.itemName \o "**: " \o m.currentQty \o " vs " \o m.avgQty \o " avg ("
       \o m.direction \o m.changePercent \o ")"
       \o (IF m.action # "" THEN " " \o MDASH \o " " \o m.action ELSE "")

\* One pass of the loop for (const line of alertLines) { ... }
AlertStep(acc, line) ==
  With([m \in {AlertMatch(line)} |->
  With([bulletText \in {Trim(From(line, 2))} |->
      IF m.ok
      THEN [alerts |-> Append(acc.alerts,
                        Insight(AlertText(m),
                                IF m.direction = DOWN THEN WARN ELSE RISING,
                                IF m.direction = DOWN THEN "warning" ELSE "info")),
            remainingText |-> RemoveFirst(acc.remainingText, line)]
      ELSE IF Ch(Trim(line), 1) \in {BULLET, "-"} /\ bulletText # ""
      THEN [alerts |-> Append(acc.alerts, Insight(bulletText, WARN, "warning")),
            remainingText |-> RemoveFirst(acc.remainingText, line)]
      ELSE acc])])

RECURSIVE AlertLoop(_, _, _)
AlertLoop(lines, k, acc) ==
  IF k > Len(lines) THEN acc
  ELSE AlertLoop(lines, k + 1, IF Trim(lines[k]) = "" THEN acc ELSE AlertStep(acc, lines[k]))

\* s.replace(/ALERTS[^:]*:\s*\n?/im, "")
RemoveAlertsHeader(s) ==
  With([colons \in {{c \in 1..Len(s) : Ch(s, c) = ":"}} |->
  With([hits \in {{p \in 1..Len(s) : StartsAtCI(s, p, "alerts") /\ \E c \in colons : c >= p + 6}} |->
  With([p0 \in {Min(hits)} |->
  With([c0 \in {Min({c \in colons : c >= p0 + 6})} |->
      IF hits = {} THEN s ELSE Sub(s, 1, p0 - 1) \o From(s, SkipWs(s, c0 + 1))])])])])

extractAlerts(s) ==
  With([section \in {AlertsSection(s)} |->
  With([acc \in {AlertLoop(Split(section), 1, [alerts |-> << >>, remainingText |-> s])} |->
      IF section = "" THEN [alerts |-> << >>, remainingText |-> s]
      ELSE [alerts |-> acc.alerts,
            remainingText |->
              Trim(IF acc.alerts # << >> THEN RemoveAlertsHeader(acc.remainingText)
                   ELSE acc.remainingText)]])])

\* ------------------------------------------------------------------------
\* extractRecommendations
\* ------------------------------------------------------------------------
\* PATTERNS.recommendationHeader at p: the position after the match, or 0.
\* (?:Here's what I'd do|Recommendations?|Actions?|What I'd recommend|Next steps?):\s*\n?
RecHeaderAt(s, p) ==
  With([w \in {
           AltCI(s, p, << "here's what i'd do", "recommendations", "recommendation",
                          "actions", "action", "what i'd recommend",
                          "next steps", "next step" >>)} |->
  With([ends \in {
              {LitCI(s, p, "here's what i'd do"),
               OptLitCI(s, LitCI(s, p, "recommendation"), "s"),
               OptLitCI(s, LitCI(s, p, "action"), "s"),
               LitCI(s, p, "what i'd recommend"),
               OptLitCI(s, LitCI(s, p, "next step"), "s")}} |->
  With([ok \in {{e \in ends : e # 0 /\ Ch(s, e) = ":"}} |->
      IF w = 0 \/ ok = {} THEN 0 ELSE SkipWs(s, Max(ok) + 1)])])])

\* /^\s*(\d+)\.\s+(.+?)(?=\n\d+\.|\n\n|$)/gms at the line start p.  With the
\* flag m the lookahead $ holds before every line end, so the lazy group
\* never runs past the line it starts on.
RecItemAt(s, p) ==
  With([d0 \in {SkipWs(s, p)} |->
  With([d1 \in {Span1(s, d0, IsDigit)} |->
  With([a \in {Lit(s, d1, ".")} |->
  With([w \in {Ws1(s, a)} |->
  With([g \in {
            IF w = 0 THEN 0
            ELSE IF w <= Len(s) THEN w
            ELSE IF Len(s) >= a + 1 THEN Len(s) ELSE 0} |->
  With([e \in {IF Ch(s, g) = "\n" THEN g ELSE LineEndAt(s, g)} |->
      IF g = 0 THEN [ok |-> FALSE, to |-> 0, g1 |-> "", g2 |-> ""]
      ELSE [ok |-> TRUE, to |-> e, g1 |-> Sub(s, d0, d1 - 1), g2 |-> Sub(s, g, e)]])])])])])])

\* /(?:Projected|Expected|Estimated)?\s*(?:impact|uplift|revenue)?\s*:?\s*
\*  ([+-]?\s*(?:EGP\s*)?\d+[^.]*)/i attempted at p: group 1 as <<from, to>>.
ImpactAt(t, p) ==
  With([b1 \in {
            IF AltCI(t, p, << "projected", "expected", "estimated" >>) # 0
            THEN AltCI(t, p, << "projected", "expected", "estimated" >>) ELSE p} |->
  With([b2 \in {SkipWs(t, b1)} |->
  With([b3 \in {
            IF AltCI(t, b2, << "impact", "uplift", "revenue" >>) # 0
            THEN AltCI(t, b2, << "impact", "uplift", "revenue" >>) ELSE b2} |->
  With([b4 \in {SkipWs(t, b3)} |->
  With([gs \in {SkipWs(t, IF Ch(t, b4) = ":" THEN b4 + 1 ELSE b4)} |->
  With([s1 \in {IF Ch(t, gs) \in {"+", "-"} THEN SkipWs(t, gs + 1) ELSE gs} |->
  With([s2 \in {IF StartsAtCI(t, s1, "egp") THEN SkipWs(t, s1 + 3) ELSE s1} |->
  With([d1 \in {Span1(t, s2, IsDigit)} |->
  With([d2 \in {IF d1 # 0 THEN d1 ELSE Span1(t, gs, IsDigit)} |->
      IF d2 = 0 THEN << 0, 0 >>
      ELSE << gs, SpanEnd(t, d2, LAMBDA c : c # ".") - 1 >>])])])])])])])])])

\* impactMatch ? impactMatch[1].trim() : undefined ("" stands for undefined)
ImpactOf(t) ==
  With([hits \in {{p \in 1..Len(t) : ImpactAt(t, p)[1] # 0}} |->
  With([m \in {ImpactAt(t, Min(hits))} |->
      IF hits = {} THEN "" ELSE Trim(Sub(t, m[1], m[2]))])])

Recommendation(m) ==
  [index |-> ParseInt(m.g1),
   text |-> Trim(Split(Trim(m.g2))[1]),
   impact |-> ImpactOf(Trim(m.g2))]

RECURSIVE RecLoop(_, _, _)
\* The loop with the items numbered by their position in the list.
RECURSIVE RecLoopRenumbered(_, _, _)
RecLoopRenumbered(s, from, acc) ==
  With([hits \in {{p \in LineStarts(s) : p >= from /\ RecItemAt(s, p).ok}} |->
  With([m \in {RecItemAt(s, Min(hits))} |->
      IF hits = {} THEN acc
      ELSE RecLoopRenumbered(s, m.to + 1,
             Append(acc, [Recommendation(m) EXCEPT !.index = 100 * (Len(acc) + 1)]))])])
RecLoop(s, from, acc) ==
  With([hits \in {{p \in LineStarts(s) : p >= from /\ RecItemAt(s, p).ok}} |->
  With([m \in {RecItemAt(s, Min(hits))} |->
      IF hits = {} THEN acc
      ELSE RecLoop(s, m.to + 1, Append(acc, Recommendation(m)))])])

\* The same without the cut at the header.
extractRecommendationsOnly(s) ==
  With([hits \in {{p \in 1..Len(s) : RecHeaderAt(s, p) # 0}} |->
  With([index \in {Min(hits)} |->
  With([afterHeader \in {From(s, RecHeaderAt(s, index))} |->
  With([recs \in {RecLoop(afterHeader, 1, << >>)} |->
      IF hits = {} THEN [recommendations |-> << >>, remainingText |-> s]
      ELSE [recommendations |-> recs, remainingText |-> s]])])])])
extractRecommendations(s) ==
  With([hits \in {{p \in 1..Len(s) : RecHeaderAt(s, p) # 0}} |->
  With([index \in {Min(hits)} |->
  With([afterHeader \in {From(s, RecHeaderAt(s, index))} |->
  With([recs \in {RecLoop(afterHeader, 1, << >>)} |->
      IF hits = {} THEN [recommendations |-> << >>, remainingText |-> s]
      ELSE [recommendations |-> recs,
            remainingText |-> IF recs # << >> THEN Trim(Sub(s, 1, index - 1)) ELSE s]])])])])

\* ------------------------------------------------------------------------
\* extractInsights
\* ------------------------------------------------------------------------
\* /^[-bullet*]\s+(.+?)$/gm at the line start p.  A bullet followed by white
\* space only gives a blank group, which the caller drops.
BulletAt(s, p) ==
  With([w \in {SkipWs(s, p + 1)} |->
      IF IsBullet(Ch(s, p)) /\ w > p + 1 /\ w <= Len(s)
      THEN [ok |-> TRUE, from |-> p, to |-> LineEndAt(s, w), g1 |-> Sub(s, w, LineEndAt(s, w))]
      ELSE [ok |-> FALSE, from |-> 0, to |-> 0, g1 |-> ""]])

\* The same with the number right after the colon.
LooksLikeKpiNoSpace(t) ==
  With([colons \in {{c \in 1..Len(t) : Ch(t, c) = ":"}} |->
      colons # {} /\ Min(colons) > 1 /\ IsDigitOrComma(Ch(t, Min(colons) + 1))])
\* /^[^:]+:\s*[\d,]+/.test(t)
LooksLikeKpi(t) ==
  With([colons \in {{c \in 1..Len(t) : Ch(t, c) = ":"}} |->
      colons # {} /\ Min(colons) > 1 /\ IsDigitOrComma(Ch(t, SkipWs(t, Min(colons) + 1)))])

\* /vs\s*[\d.]+\s*avg/i.test(t)
LooksLikeAlert(t) ==
  \E p \in 1..Len(t) :
    LitCI(t, Ws0(t, Span1(t, Ws0(t, LitCI(t, p, "vs")), IsDigitOrDot)), "avg") # 0

Includes(t, sub) == IndexOf(t, sub) # 0

\* The type, icon and text of one bullet ("" stands for an undefined icon).
ClassifyInsight(t) ==
  IF StartsAt(t, 1, FIRE)
  THEN Insight(Trim(From(t, 3)), FIRE, "highlight")
  ELSE IF StartsAt(t, 1, WARN) \/ Includes(ToLower(t), "warning") \/ Includes(ToLower(t), "alert")
  THEN Insight(IF StartsAt(t, 1, WARN) THEN Trim(From(t, 3)) ELSE t, WARN, "warning")
  ELSE IF StartsAt(t, 1, CHECK) \/ StartsAt(t, 1, TARGET)
  THEN Insight(Trim(From(t, 3)), Sub(t, 1, 2), "success")
  ELSE Insight(t, "", "info")

MinInsightLength == 10

RECURSIVE InsightLoop(_, _, _)
\* The loop that keeps a text of MinInsightLength characters.
RECURSIVE InsightLoopFromTen(_, _, _)
InsightLoopFromTen(s, from, acc) ==
  With([hits \in {{p \in LineStarts(s) : p >= from /\ BulletAt(s, p).ok}} |->
  With([m \in {BulletAt(s, Min(hits))} |->
  With([itemText \in {Trim(m.g1)} |->
  With([item \in {ClassifyInsight(itemText)} |->
  With([keep \in {
              ~LooksLikeKpi(itemText) /\ ~LooksLikeAlert(itemText)
              /\ Len(item.text) >= MinInsightLength} |->
      IF hits = {} THEN acc
      ELSE InsightLoopFromTen(s, m.to + 1,
             IF keep
             THEN [insights |-> Append(acc.insights, item),
                   remainingText |-> RemoveFirst(acc.remainingText, Sub(s, m.from, m.to))]
             ELSE acc)])])])])])
InsightLoop(s, from, acc) ==
  With([hits \in {{p \in LineStarts(s) : p >= from /\ BulletAt(s, p).ok}} |->
  With([m \in {BulletAt(s, Min(hits))} |->
  With([itemText \in {Trim(m.g1)} |->
  With([item \in {ClassifyInsight(itemText)} |->
  With([keep \in {
              ~LooksLikeKpi(itemText) /\ ~LooksLikeAlert(itemText)
              /\ Len(item.text) > MinInsightLength} |->
      IF hits = {} THEN acc
      ELSE InsightLoop(s, m.to + 1,
             IF keep
             THEN [insights |-> Append(acc.insights, item),
                   remainingText |-> RemoveFirst(acc.remainingText, Sub(s, m.from, m.to))]
             ELSE acc)])])])])])

extractInsights(s) ==
  With([acc \in {InsightLoop(s, 1, [insights |-> << >>, remainingText |-> s])} |->
      [insights |-> acc.insights, remainingText |-> Trim(acc.remainingText)]])

\* ------------------------------------------------------------------------
\* extractTable
\* ------------------------------------------------------------------------
IsSepRowCh(c) == c \in {"-", ":", "|", " "}

\* (?:\|.+\|\n?)+ from the line start r: the position after the last character
\* taken, or 0.  A row ends at the last | of its line; the rows stop at a row
\* with text after its last |.
RECURSIVE TableRowsEnd(_, _)
TableRowsEnd(s, r) ==
  With([e \in {LineEndAt(s, r)} |->
  With([bars \in {{k \in (r + 2)..e : Ch(s, k) = "|"}} |->
  With([more \in {IF Max(bars) = e /\ e + 1 <= Len(s) THEN TableRowsEnd(s, e + 2) ELSE 0} |->
      IF Ch(s, r) # "|" \/ bars = {} THEN 0
      ELSE IF more # 0 THEN more
      ELSE IF Max(bars) = e THEN Min({e + 2, Len(s) + 1})
      ELSE Max(bars) + 1])])])

\* PATTERNS.markdownTable matched at p: \|(.+)\|\n\|[-:| ]+\|\n((?:\|.+\|\n?)+)
\* The position after the match, or 0.
TableAt(s, p) ==
  With([he \in {LineEndAt(s, p)} |->
  With([ss \in {he + 2} |->
  With([se \in {LineEndAt(s, ss)} |->
  With([headerOk \in {Ch(s, p) = "|" /\ he >= p + 2 /\ Ch(s, he) = "|" /\ he + 1 <= Len(s)} |->
  With([sepOk \in {
               /\ Ch(s, ss) = "|" /\ se >= ss + 2 /\ Ch(s, se) = "|" /\ se + 1 <= Len(s)
               /\ \A k \in ss..se : IsSepRowCh(Ch(s, k))} |->
      IF headerOk /\ sepOk THEN TableRowsEnd(s, se + 2) ELSE 0])])])])])

\* text.match(PATTERNS.markdownTable): the expression carries the flag g, so
\* the search starts at 0 whatever lastIndex was, and the result is the array
\* of the full texts of all matches (no capture groups), or null (<< >>).
RECURSIVE TableMatches(_, _)
TableMatches(s, from) ==
  With([hits \in {{p \in from..Len(s) : TableAt(s, p) # 0}} |->
  With([p0 \in {Min(hits)} |->
      IF hits = {} THEN << >>
      ELSE << Sub(s, p0, TableAt(s, p0) - 1) >> \o TableMatches(s, TableAt(s, p0))])])

\* t.split(c) for a one-character separator c
SplitOn(t, c) ==
  With([ps \in {{k \in 1..Len(t) : Ch(t, k) = c}} |->
  With([n \in {Cardinality(ps)} |->
      [j \in 1..(n + 1) |->
         Sub(t, IF j = 1 THEN 1 ELSE Nth(ps, j - 1) + 1,
                IF j = n + 1 THEN Len(t) ELSE Nth(ps, j) - 1)]])])

\* row.split("|").map(cell => cell.trim()).filter(Boolean)
Cells(row) ==
  With([parts \in {SplitOn(row, "|")} |->
  With([keep \in {{j \in 1..Len(parts) : Trim(parts[j]) # ""}} |->
      [j \in 1..Cardinality(keep) |-> Trim(parts[Nth(keep, j)])]])])

NoTable == [headers |-> << >>, rows |-> << >>]

\* const [fullMatch, headerRow, bodyRows] = match takes the first three
\* elements of the array of matches; headerRow.split and bodyRows.trim throw
\* a TypeError when the array has fewer than three.
\* bodyRows.trim().split("\n").map(row => row.split("|").map(...).filter(Boolean))
TableRows(bodyRows) ==
  With([lines \in {Split(Trim(bodyRows))} |->
      [k \in 1..Len(lines) |-> Cells(lines[k])]])

extractTable(s) ==
  With([match \in {TableMatches(s, 1)} |->
      IF match = << >>
      THEN [threw |-> FALSE, hasTable |-> FALSE, table |-> NoTable, remainingText |-> s]
      ELSE IF Len(match) < 3
      THEN [threw |-> TRUE, hasTable |-> FALSE, table |-> NoTable, remainingText |-> s]
      ELSE [threw |-> FALSE, hasTable |-> TRUE,
            table |-> [headers |-> Cells(match[2]),
                       rows |-> TableRows(match[3])],
            remainingText |-> Trim(RemoveFirst(s, match[1]))]])

\* ------------------------------------------------------------------------
\* parseResponse, step 9
\* ------------------------------------------------------------------------
IsUpperOrWs(c) == IsUpper(c) \/ IsWs(c)

\* /^[A-Z][A-Z\s]+:\s*$/gm matched at the line start p: the position after
\* the match, or 0.
EmptyHeaderEnd(s, p) ==
  With([r \in {SpanEnd(s, p + 1, IsUpperOrWs)} |->
  With([w \in {SkipWs(s, r + 1)} |->
  With([ends \in {{k \in (r + 1)..w : k = Len(s) + 1 \/ Ch(s, k) = "\n"}} |->
      IF IsUpper(Ch(s, p)) /\ r > p + 1 /\ Ch(s, r) = ":" /\ ends # {}
      THEN Max(ends) ELSE 0])])])

\* s.replace(/^[A-Z][A-Z\s]+:\s*$/gm, "") from position from on
RECURSIVE RemoveEmptyHeaders(_, _)
RemoveEmptyHeaders(s, from) ==
  With([hits \in {{p \in LineStarts(s) : p >= from /\ EmptyHeaderEnd(s, p) # 0}} |->
      IF hits = {} THEN From(s, from)
      ELSE Sub(s, from, Min(hits) - 1)
           \o RemoveEmptyHeaders(s, EmptyHeaderEnd(s, Min(hits)))])

CleanText(s) == Trim(CollapseNewlines(RemoveEmptyHeaders(s, 1)))

MinRawTextLength == 50

\* ------------------------------------------------------------------------
\* hasVisualContent
\* ------------------------------------------------------------------------
\* The same with the raw text counted as content.
hasAnyContent(parsed) ==
  \/ parsed.headline # ""
  \/ Len(parsed.kpiCards) > 0
  \/ Len(parsed.chartData) > 0
  \/ Len(parsed.menuEngineering) > 0
  \/ Len(parsed.recommendations) > 0
  \/ Len(parsed.insights) > 0
  \/ parsed.hasTable
  \/ parsed.hasRawText /\ parsed.rawText # ""
hasVisualContent(parsed) ==
  \/ parsed.headline # ""
  \/ Len(parsed.kpiCards) > 0
  \/ Len(parsed.chartData) > 0
  \/ Len(parsed.menuEngineering) > 0
  \/ Len(parsed.recommendations) > 0
  \/ Len(parsed.insights) > 0
  \/ parsed.hasTable

\* ------------------------------------------------------------------------
\* The shared regular expressions of PATTERNS carry the flag g and therefore
\* a lastIndex that outlives a call.
\* ------------------------------------------------------------------------
\* PATTERNS.rankedItem.test(text) would move lastIndex behind the first match.
RankedLastIndexAfterTest(s, lastIndex) ==
  With([hits \in {{p \in LineStarts(s) : p > lastIndex /\ p <= Len(s) /\ RankedAt(s, p).ok}} |->
      IF hits = {} THEN 0 ELSE RankedAt(s, Min(hits)).to - 1])
\* [...text.matchAll(PATTERNS.rankedItem)] iterates over a copy of the
\* expression: the lastIndex of PATTERNS.rankedItem is what it was.
RankedLastIndexAfter(s, lastIndex) == lastIndex

\* [...text.matchAll(PATTERNS.menuClass)], likewise.
MenuLastIndexAfter(s, lastIndex) == lastIndex

\* text.match(PATTERNS.markdownTable) leaves lastIndex at 0.
TableLastIndexAfter(s, lastIndex) == 0

\* ------------------------------------------------------------------------
\* parseResponse as a state machine: one action per numbered step
\* ------------------------------------------------------------------------
VARIABLES
  inputs,      \* the contents a caller may pass (fixed during a behaviour)
  callsLeft,   \* calls of parseResponse still to come
  pc,          \* the step the current call is at
  content,     \* the argument of the current call
  text,        \* let text
  result,      \* const result
  sections,    \* const sections
  order,       \* let order
  alerts,      \* the alerts of step 3, held until step 7
  lastIndex,   \* the lastIndex of the shared expressions of PATTERNS
  log,         \* the calls that have ended, with what they returned
  showVisual,  \* what hasVisualContent returned for the result of the last call
  messages,    \* ChatInterface: const [messages, setMessages]
  isLoading,   \* ChatInterface: const [isLoading, setIsLoading]
  pending      \* ChatInterface: the calls of handleSendMessage waiting at the await

vars ==
  << inputs, callsLeft, pc, content, text, result, sections, order, alerts, lastIndex, log,
     showVisual, messages, isLoading, pending >>

chat == << messages, isLoading, pending >>

\* A field that parseResponse does not set is "", << >> or FALSE here.
EmptyResult ==
  [headline |-> "", kpiCards |-> << >>, chartData |-> << >>, menuEngineering |-> << >>,
   recommendations |-> << >>, insights |-> << >>, hasTable |-> FALSE, tableData |-> NoTable,
   hasRawText |-> FALSE, rawText |-> "", hasSections |-> FALSE, sections |-> << >>]

\* An argument: a string, or a value of another type (str is then its image).
\* gen records the pieces a generated text was put together from; the parser
\* never reads it.
Gen(x, g) == [kind |-> "string", str |-> x, gen |-> g]
Str(x) == Gen(x, << >>)
Undefined == [kind |-> "undefined", str |-> "", gen |-> << >>]
Null == [kind |-> "null", str |-> "", gen |-> << >>]
Zero == [kind |-> "number", str |-> "0", gen |-> << >>]
Seven == [kind |-> "number", str |-> "7", gen |-> << >>]

FalsyNullish(c) == c.kind \in {"undefined", "null"}
\* !content
Falsy(c) == c.kind \in {"undefined", "null"} \/ (c.kind = "string" /\ c.str = "") \/ c = Zero

StageIndex(type) ==
  CHOOSE k \in 0..8 :
    << "headline", "kpis", "alerts", "chart", "menu", "recommendations", "insights",
       "table", "text" >>[k + 1] = type
\* The section numbered by the stage that made it.
SectionByStage(type, title, c, o) ==
  [type |-> type, title |-> title, content |-> c, order |-> StageIndex(type)]
Section(type, title, c, o) == [type |-> type, title |-> title, content |-> c, order |-> o]

\* What a caller can see of a call that has ended.
Outcome(threw, res) ==
  [threw |-> threw,
   fields |-> [res EXCEPT !.sections = << >>],
   sectionTypes |-> [k \in 1..Len(res.sections) |-> res.sections[k].type],
   sectionOrders |-> [k \in 1..Len(res.sections) |-> res.sections[k].order]]

InitLocals ==
  /\ pc = "idle"
  /\ content = Undefined
  /\ text = ""
  /\ result = EmptyResult
  /\ sections = << >>
  /\ order = 0
  /\ alerts = << >>
  /\ lastIndex = [rankedItem |-> 0, menuClass |-> 0, markdownTable |-> 0]
  /\ log = << >>
  /\ showVisual = FALSE

\* A caller calls parseResponse(content).
Call ==
  /\ pc \in {"idle", "done", "shown", "thrown"}
  /\ callsLeft > 0
  /\ \E c \in inputs : content' = c
  /\ callsLeft' = callsLeft - 1
  /\ pc' = "enter"
  /\ text' = ""
  /\ result' = EmptyResult
  /\ sections' = << >>
  /\ order' = 0
  /\ alerts' = << >>
  /\ UNCHANGED << inputs, lastIndex, log >>
  /\ showVisual' = FALSE
  /\ UNCHANGED chat

\* if (!content || typeof content !== "string") return { rawText: content || "" }
Enter ==
  /\ pc = "enter"
  /\ IF Falsy(content) \/ content.kind # "string"
     THEN /\ result' = [EmptyResult EXCEPT !.hasRawText = TRUE,
                                           !.rawText = IF Falsy(content) THEN "" ELSE content.str]
          /\ pc' = "done"
          /\ log' = Append(log, [content |-> content, outcome |-> Outcome(FALSE, result')])
          /\ UNCHANGED text
     ELSE /\ text' = content.str
          /\ pc' = "headline"
          /\ UNCHANGED << result, log >>
  /\ UNCHANGED << inputs, callsLeft, content, sections, order, alerts, lastIndex >>
  /\ UNCHANGED << showVisual, chat >>

\* 1. Extract headline
StepHeadline ==
  /\ pc = "headline"
  /\ \E r \in {extractHeadline(text)} :
         IF r.headline # ""
         THEN /\ result' = [result EXCEPT !.headline = r.headline]
              /\ sections' = Append(sections, Section("headline", "", r.headline, order))
              /\ order' = order + 1
              /\ text' = r.remainingText
         ELSE UNCHANGED << result, sections, order, text >>
  /\ pc' = "kpis"
  /\ UNCHANGED << inputs, callsLeft, content, alerts, lastIndex, log >>
  /\ UNCHANGED << showVisual, chat >>

\* Step 2 without the section.
StepKPIsNoSection ==
  /\ pc = "kpis"
  /\ \E r \in {extractKPIs(text)} :
         IF Len(r.kpis) > 0
         THEN /\ result' = [result EXCEPT !.kpiCards = r.kpis]
              /\ text' = r.remainingText
              /\ UNCHANGED << sections, order >>
         ELSE UNCHANGED << result, sections, order, text >>
  /\ pc' = "alerts"
  /\ UNCHANGED << inputs, callsLeft, content, alerts, lastIndex, log >>
  /\ UNCHANGED << showVisual, chat >>
\* 2. Extract KPIs
StepKPIs ==
  /\ pc = "kpis"
  /\ \E r \in {extractKPIs(text)} :
         IF Len(r.kpis) > 0
         THEN /\ result' = [result EXCEPT !.kpiCards = r.kpis]
              /\ sections' = Append(sections, Section("kpis", "", r.kpis, order))
              /\ order' = order + 1
              /\ text' = r.remainingText
         ELSE UNCHANGED << result, sections, order, text >>
  /\ pc' = "alerts"
  /\ UNCHANGED << inputs, callsLeft, content, alerts, lastIndex, log >>
  /\ UNCHANGED << showVisual, chat >>

\* 3. Extract alerts
StepAlerts ==
  /\ pc = "alerts"
  /\ \E r \in {extractAlerts(text)} :
         /\ alerts' = r.alerts
         /\ text' = r.remainingText
  /\ pc' = "chart"
  /\ UNCHANGED << inputs, callsLeft, content, result, sections, order, lastIndex, log >>
  /\ UNCHANGED << showVisual, chat >>

\* 4. Extract chart data
StepChart ==
  /\ pc = "chart"
  /\ \E r \in {extractChartData(text, lastIndex.rankedItem)} :
         IF Len(r.chartData) > 0
         THEN /\ result' = [result EXCEPT !.chartData = r.chartData]
              /\ sections' = Append(sections, Section("chart", "", r.chartData, order))
              /\ order' = order + 1
              /\ text' = r.remainingText
         ELSE UNCHANGED << result, sections, order, text >>
  /\ lastIndex' = [lastIndex EXCEPT
                     !.rankedItem = RankedLastIndexAfter(text, lastIndex.rankedItem)]
  /\ pc' = "menu"
  /\ UNCHANGED << inputs, callsLeft, content, alerts, log >>
  /\ UNCHANGED << showVisual, chat >>

\* 5. Extract menu engineering
StepMenu ==
  /\ pc = "menu"
  /\ \E r \in {extractMenuEngineering(text, lastIndex.menuClass)} :
         IF Len(r.menuEng) > 0
         THEN /\ result' = [result EXCEPT !.menuEngineering = r.menuEng]
              /\ sections' = Append(sections, Section("menu", "Menu Engineering", r.menuEng, order))
              /\ order' = order + 1
              /\ text' = r.remainingText
         ELSE UNCHANGED << result, sections, order, text >>
  /\ lastIndex' = [lastIndex EXCEPT
                     !.menuClass = MenuLastIndexAfter(text, lastIndex.menuClass)]
  /\ pc' = "recommendations"
  /\ UNCHANGED << inputs, callsLeft, content, alerts, log >>
  /\ UNCHANGED << showVisual, chat >>

\* 6. Extract recommendations
StepRecommendations ==
  /\ pc = "recommendations"
  /\ \E r \in {extractRecommendations(text)} :
         IF Len(r.recommendations) > 0
         THEN /\ result' = [result EXCEPT !.recommendations = r.recommendations]
              /\ sections' = Append(sections,
                                Section("recommendations", "Recommendations", r.recommendations, order))
              /\ order' = order + 1
              /\ text' = r.remainingText
         ELSE UNCHANGED << result, sections, order, text >>
  /\ pc' = "insights"
  /\ UNCHANGED << inputs, callsLeft, content, alerts, lastIndex, log >>
  /\ UNCHANGED << showVisual, chat >>

InsightsBeforeAlerts(alertItems, otherInsights) == otherInsights \o alertItems
\* const allInsights = [...alerts, ...otherInsights]
CombineInsights(alertItems, otherInsights) == alertItems \o otherInsights

\* 7. Extract other insights, combined with the alerts
StepInsights ==
  /\ pc = "insights"
  /\ \E r \in {extractInsights(text)} : \E allInsights \in {CombineInsights(alerts, r.insights)} :
         IF Len(allInsights) > 0
         THEN /\ result' = [result EXCEPT !.insights = allInsights]
              /\ sections' = Append(sections,
                                Section("insights",
                                        IF Len(alerts) > 0 THEN "Alerts & Insights"
                                        ELSE "What the data says",
                                        allInsights, order))
              /\ order' = order + 1
              /\ text' = r.remainingText
         ELSE UNCHANGED << result, sections, order, text >>
  /\ pc' = "table"
  /\ UNCHANGED << inputs, callsLeft, content, alerts, lastIndex, log >>
  /\ UNCHANGED << showVisual, chat >>

\* 8. Extract table; a TypeError inside extractTable ends the call
StepTable ==
  /\ pc = "table"
  /\ \E r \in {extractTable(text)} :
         IF r.threw
         THEN /\ pc' = "thrown"
              /\ log' = Append(log, [content |-> content, outcome |-> Outcome(TRUE, EmptyResult)])
              /\ UNCHANGED << result, sections, order, text >>
         ELSE /\ pc' = "finish"
              /\ UNCHANGED log
              /\ IF r.hasTable
                 THEN /\ result' = [result EXCEPT !.hasTable = TRUE, !.tableData = r.table]
                      /\ sections' = Append(sections, Section("table", "", r.table, order))
                      /\ order' = order + 1
                      /\ text' = r.remainingText
                 ELSE UNCHANGED << result, sections, order, text >>
  /\ lastIndex' = [lastIndex EXCEPT
                     !.markdownTable = TableLastIndexAfter(text, lastIndex.markdownTable)]
  /\ UNCHANGED << inputs, callsLeft, content, alerts >>
  /\ UNCHANGED << showVisual, chat >>

\* Step 9 that keeps a rest of MinRawTextLength characters.
StepFinishFromFifty ==
  /\ pc = "finish"
  /\ \E cleanedText \in {CleanText(text)} :
         IF Len(cleanedText) >= MinRawTextLength
         THEN /\ sections' = Append(sections, Section("text", "", cleanedText, order))
              /\ order' = order + 1
              /\ result' = [result EXCEPT !.hasRawText = TRUE,
                                          !.rawText = cleanedText,
                                          !.hasSections = TRUE,
                                          !.sections = sections']
         ELSE /\ result' = [result EXCEPT !.hasSections = TRUE, !.sections = sections]
              /\ UNCHANGED << sections, order >>
  /\ log' = Append(log, [content |-> content, outcome |-> Outcome(FALSE, result')])
  /\ pc' = "done"
  /\ UNCHANGED << inputs, callsLeft, content, text, alerts, lastIndex >>
  /\ UNCHANGED << showVisual, chat >>
\* 9. Keep the remaining text; result.sections = sections; return result
StepFinish ==
  /\ pc = "finish"
  /\ \E cleanedText \in {CleanText(text)} :
         IF Len(cleanedText) > MinRawTextLength
         THEN /\ sections' = Append(sections, Section("text", "", cleanedText, order))
              /\ order' = order + 1
              /\ result' = [result EXCEPT !.hasRawText = TRUE,
                                          !.rawText = cleanedText,
                                          !.hasSections = TRUE,
                                          !.sections = sections']
         ELSE /\ result' = [result EXCEPT !.hasSections = TRUE, !.sections = sections]
              /\ UNCHANGED << sections, order >>
  /\ log' = Append(log, [content |-> content, outcome |-> Outcome(FALSE, result')])
  /\ pc' = "done"
  /\ UNCHANGED << inputs, callsLeft, content, text, alerts, lastIndex >>
  /\ UNCHANGED << showVisual, chat >>

\* const showVisual = parsed && hasVisualContent(parsed), and the tests'
\* hasVisualContent(parseResponse(...)): the caller looks at the result.
StepVisual ==
  /\ pc = "done"
  /\ showVisual' = hasVisualContent(result)
  /\ pc' = "shown"
  /\ UNCHANGED << inputs, callsLeft, content, text, result, sections, order, alerts,
                  lastIndex, log, chat >>

\* ------------------------------------------------------------------------
\* ChatInterface: handleSendMessage and handleNewChat
\* ------------------------------------------------------------------------
\* A Message without its id and timestamp.
Message(role, c) == [role |-> role, content |-> c]

NoAnswerText == "I couldn't generate a response. Please try rephrasing."
ConnectErrorText == "Sorry, I couldn't connect to the server. Please check your connection."
OtherErrorText == "Sorry, I encountered an error. Please try again."

\* What the user may type or pick, and the answers the API may give.
Questions == {" ", " Sales today? "}
Answers == {"", "Sales are up today"}

InitChat ==
  /\ messages = << >>
  /\ isLoading = FALSE
  /\ pending = {}

\* Handlers run to completion: none starts in the middle of a call of
\* parseResponse.
AtRest == {"idle", "done", "shown", "thrown"}

AnswerOnly(updatedMessages, message) == << message >>
\* setMessages([...updatedMessages, aiMessage]), and the same with errorMessage
AfterAnswer(updatedMessages, message) == Append(updatedMessages, message)

\* handleSendMessage(c) up to the await.  ChatInput and SuggestionChips are
\* disabled while isLoading; the prompts of WelcomeScreen are shown while
\* there are no messages.  callsLeft bounds the messages sent as well.
handleSendMessage(c) ==
  /\ pc \in AtRest
  /\ callsLeft > 0
  /\ ~isLoading \/ messages = << >>
  /\ IF Trim(c) = ""
     THEN UNCHANGED << callsLeft, chat >>
     ELSE \E updatedMessages \in {Append(messages, Message("user", Trim(c)))} :
            /\ messages' = updatedMessages
            /\ isLoading' = TRUE
            /\ pending' = pending \cup {[id |-> callsLeft, question |-> Trim(c),
                                         updatedMessages |-> updatedMessages]}
            /\ callsLeft' = callsLeft - 1
  /\ UNCHANGED << inputs, pc, content, text, result, sections, order, alerts, lastIndex,
                  log, showVisual >>

\* askQuestion resolves for the call r: the rest of the try block and finally.
Resolve(r, answer) ==
  /\ pc \in AtRest
  /\ messages' = AfterAnswer(r.updatedMessages,
                   Message("assistant", IF answer = "" THEN NoAnswerText ELSE answer))
  /\ isLoading' = FALSE
  /\ pending' = pending \ {r}
  /\ UNCHANGED << inputs, callsLeft, pc, content, text, result, sections, order, alerts,
                  lastIndex, log, showVisual >>

\* askQuestion rejects for the call r: the catch block and finally.
Reject(r, isTypeError) ==
  /\ pc \in AtRest
  /\ messages' = AfterAnswer(r.updatedMessages,
                   Message("assistant",
                           IF isTypeError THEN ConnectErrorText ELSE OtherErrorText))
  /\ isLoading' = FALSE
  /\ pending' = pending \ {r}
  /\ UNCHANGED << inputs, callsLeft, pc, content, text, result, sections, order, alerts,
                  lastIndex, log, showVisual >>

\* The New Chat button, shown when hasMessages.
handleNewChat ==
  /\ pc \in AtRest
  /\ Len(messages) > 0
  /\ messages' = << >>
  /\ isLoading' = FALSE
  /\ UNCHANGED << inputs, callsLeft, pc, content, text, result, sections, order, alerts,
                  lastIndex, log, showVisual, pending >>

Next ==
  \/ Call
  \/ Enter
  \/ StepHeadline
  \/ StepKPIs
  \/ StepAlerts
  \/ StepChart
  \/ StepMenu
  \/ StepRecommendations
  \/ StepInsights
  \/ StepTable
  \/ StepFinish
  \/ StepVisual
  \/ \E c \in Questions : handleSendMessage(c)
  \/ \E r \in pending : \E answer \in Answers : Resolve(r, answer)
  \/ \E r \in pending : \E isTypeError \in BOOLEAN : Reject(r, isTypeError)
  \/ handleNewChat

\* ------------------------------------------------------------------------
\* Responses in the format of the Brain API
\* ------------------------------------------------------------------------
SampleResponses ==
  { "HEADLINE: Sales are up today\n\nTHE NUMBERS (vs last week):\n@ GMV: 32,195 EGP ^ 0.5%\n@ Orders: 17 ~ 29.2%\n\nALERTS:\n@ Cappuccino: 3 qty vs 19.1 avg ~ 84.3% > check stock\n\nTop items:\n@ Latte: 1,600 EGP\n@ Flat White: 425 EGP\n@ Mocha: 520 EGP\n\nSTAR: Latte, Mocha\nDOG: Decaf\n\n- Morning rush drives most of the revenue\n\nRecommendations:\n1. Promote the mocha. Expected impact: +EGP 220/day\n2. Check the cappuccino stock",
    "Just plain prose with no structure at all, which is long enough to be kept as the raw text.",
    "short",
    "| a | b |\n|---|---|\n| 1 | 2 |",
    "Intro\n| a | b |\n|---|---|\n| 1 | 2 |\n\n| c | d |\n|---|---|\n| 3 | 4 |",
    "| a | b |\n|---|---|\n| 1 | 2 |\n\n| c | d |\n|---|---|\n| 3 | 4 |\n\n| e | f |\n|---|---|\n| 5 | 6 |",
    "1. Latte - 500 EGP\n2. Mocha - 300 EGP\n3. Tea - 200 EGP",
    "28,382.95 EGP GMV from 17 successful orders\nAverage order value: 1,669.59 EGP",
    "STAR: Latte, Mocha\nDOG: Decaf\nSTAR: Tea",
    "Recommendations:\n1. Promote the mocha. Expected impact: +EGP 220/day\n2. Check the cappuccino stock",
    "**HEADLINE:** **Sales up**\n- Morning rush drives most of the revenue",
    "THE NUMBERS:\n@ GMV: 32,195 EGP\n\nSTAR: Latte\n\n- Morning rush drives most of the revenue\n\nThe rest of the day was quiet, with few orders after the lunch hour." }

SampleInputs == {Str(x) : x \in SampleResponses} \cup {Str(""), Undefined, Null, Zero, Seven}

MaxCalls == 1

Init ==
  /\ inputs = SampleInputs
  /\ callsLeft = MaxCalls
  /\ InitLocals
  /\ InitChat

Spec == Init /\ [][Next]_vars

\* ------------------------------------------------------------------------
\* C1
\* ------------------------------------------------------------------------
OneTable == "| a | b |\n|---|---|\n| 1 | 2 |"

\* C1: parseResponse never throws: whatever the input, and also for a text
\* that holds markdown tables, the call returns a value.
NeverThrows == pc # "thrown"

\* ------------------------------------------------------------------------
\* C2
\* ------------------------------------------------------------------------
RawTextOnly(raw) == [EmptyResult EXCEPT !.hasRawText = TRUE, !.rawText = raw]

\* C2 as stated: every returned object carries a sections array.
AlwaysSections == pc = "done" => result.hasSections

\* C2, amended: the returned object carries a sections array exactly when the
\* input is a non-empty string; for the empty string and for a value that is
\* not a string it is { rawText } alone, with the empty string for a falsy
\* input and the input itself otherwise.
SectionsIffNonEmptyString ==
  pc = "done" =>
    IF content.kind = "string" /\ content.str # ""
    THEN result.hasSections
    ELSE result = RawTextOnly(IF content = Seven THEN "7" ELSE "")

\* Plain prose has gone through all steps and carries an empty sections array.
ProseHasEmptySections ==
  /\ pc = "done"
  /\ content = Str("short")
  /\ result.hasSections
  /\ result.sections = << >>

\* ------------------------------------------------------------------------
\* C3
\* ------------------------------------------------------------------------
RankedList == "1. Latte - 500 EGP\n2. Mocha - 300 EGP\n3. Tea - 200 EGP"
MixedText ==
  "HEADLINE: Up\n@ GMV: 32,195 EGP ^ 0.5%\nSTAR: Latte, Mocha\n- Morning rush drives the revenue"
ThreeTables ==
  "| a | b |\n|---|---|\n| 1 | 2 |\n\n| c | d |\n|---|---|\n| 3 | 4 |\n\n| e | f |\n|---|---|\n| 5 | 6 |"

PureInputs == {Str(RankedList), Str(MixedText), Str(ThreeTables)}

MaxPureCalls == 3

InitPure ==
  /\ inputs = PureInputs
  /\ callsLeft = MaxPureCalls
  /\ InitLocals
  /\ InitChat

SpecPure == InitPure /\ [][Next]_vars

\* C3: parseResponse is pure: two calls with the same input return equal
\* results, whatever calls were made before and between them; the lastIndex
\* of the shared expressions is 0 whenever a call starts.
SameInputSameResult ==
  /\ \A i, j \in 1..Len(log) :
       log[i].content = log[j].content => log[i].outcome = log[j].outcome
  /\ pc = "enter" => lastIndex = [rankedItem |-> 0, menuClass |-> 0, markdownTable |-> 0]

\* The ranked list was parsed, then another text, then the ranked list again.
RankedParsedTwice ==
  /\ Len(log) = 3
  /\ log[1].content = Str(RankedList)
  /\ log[2].content = Str(ThreeTables)
  /\ log[3].content = Str(RankedList)
  /\ Len(log[3].outcome.fields.chartData) = 3

\* ------------------------------------------------------------------------
\* C4
\* ------------------------------------------------------------------------
HeadlineTexts == {"Sales up", "**Sales up**", "Sales are **up** today"}

\* The headline line in its phrasings, followed by a line of prose; gen holds X.
HeadlineInputs ==
  { Gen(hashes \o open \o word \o colon \o x \o "\nOrders were steady.", << x >>) :
      hashes \in {"", "## "}, open \in {"", "**"}, word \in {"HEADLINE", "Headline"},
      colon \in {":", ":**", ": ", ":** "}, x \in HeadlineTexts }

InitHeadline ==
  /\ inputs = HeadlineInputs
  /\ callsLeft = 1
  /\ InitLocals
  /\ InitChat

SpecHeadline == InitHeadline /\ [][Next]_vars

\* C4: for a headline line such as **HEADLINE:** X, ## Headline: X or
\* Headline:X the produced headline is X with the bold markers removed: it
\* never contains two asterisks in a row.
HeadlineWithoutBold == pc = "done" => IndexOf(result.headline, "**") = 0

\* ------------------------------------------------------------------------
\* C5, C6
\* ------------------------------------------------------------------------
\* KPI lines as the Brain API writes them.  Beside each line: the labels it
\* names with their values in hundredths, read off the line by hand, and
\* whether it is of the form <amount> EGP GMV from <n> orders.
KpiLineOf(line, cards, sentence) == [line |-> line, cards |-> cards, sentence |-> sentence]

KpiCatalog ==
  << KpiLineOf("28,382.95 EGP GMV from 17 successful orders",
               << << "Revenue", 2838295 >>, << "Orders", 1700 >> >>, TRUE),
     KpiLineOf("1,200 EGP total sales from 8 orders",
               << << "Revenue", 120000 >>, << "Orders", 800 >> >>, TRUE),
     KpiLineOf("950.5 EGP revenue from 3 successful orders",
               << << "Revenue", 95050 >>, << "Orders", 300 >> >>, TRUE),
     KpiLineOf("@ GMV: 32,195 EGP ^ 0.5%", << << "Revenue", 3219500 >> >>, FALSE),
     KpiLineOf("- Revenue: 500 EGP", << << "Revenue", 50000 >> >>, FALSE),
     KpiLineOf("* Total Sales: 7,000 EGP", << << "Revenue", 700000 >> >>, FALSE),
     KpiLineOf("- Orders: 21", << << "Orders", 2100 >> >>, FALSE),
     KpiLineOf("1,669.59 EGP AOV", << << "Avg Order", 166959 >> >>, FALSE),
     KpiLineOf("- AOV: 40 EGP", << << "Avg Order", 4000 >> >>, FALSE),
     KpiLineOf("2,076 EGP in tips", << << "Tips", 207600 >> >>, FALSE),
     KpiLineOf("94.1% payment approval rate", << << "Approval Rate", 9410 >> >>, FALSE),
     KpiLineOf("- TotalSales: 9 EGP", << << "TotalSales", 900 >> >>, FALSE) >>

MaxKpiLines == 2

\* The sequences of up to MaxKpiLines different lines of the catalog.
KpiChoices ==
  UNION { { g \in [1..n -> 1..Len(KpiCatalog)] : \A i, j \in 1..n : i # j => g[i] # g[j] } :
            n \in 1..MaxKpiLines }

KpiInputs == { Gen(Join([k \in 1..Len(g) |-> KpiCatalog[g[k]].line]), g) : g \in KpiChoices }

InitKPI ==
  /\ inputs = KpiInputs
  /\ callsLeft = 1
  /\ InitLocals
  /\ InitChat

SpecKPI == InitKPI /\ [][Next]_vars

\* The lines of the parsed text, and the labels line k names.
GenLines == [k \in 1..Len(content.gen) |-> KpiCatalog[content.gen[k]]]
LabelsOf(entry) == { entry.cards[i][1] : i \in 1..Len(entry.cards) }
ValueIn(entry, label) ==
  entry.cards[CHOOSE i \in 1..Len(entry.cards) : entry.cards[i][1] = label][2]
CardsLabelled(label) == { i \in 1..Len(result.kpiCards) : result.kpiCards[i].label = label }

\* C5: the KPI labels of a result are pairwise distinct; for every label that
\* some line names there is exactly one card, with the value of the first
\* line that names it, also when later lines name it by gmv, revenue or
\* total sales.
KpiLabelsDistinct ==
  pc = "done" =>
    /\ \A i, j \in 1..Len(result.kpiCards) :
         i # j => ToLower(result.kpiCards[i].label) # ToLower(result.kpiCards[j].label)
    /\ \A k \in 1..Len(GenLines) : \A label \in LabelsOf(GenLines[k]) :
         (\A e \in 1..(k - 1) : label \notin LabelsOf(GenLines[e])) =>
           /\ Cardinality(CardsLabelled(label)) = 1
           /\ \A i \in CardsLabelled(label) :
                result.kpiCards[i].value = NumVal(ValueIn(GenLines[k], label))
    /\ Len(result.kpiCards) = Cardinality(UNION { LabelsOf(GenLines[k]) : k \in 1..Len(GenLines) })

\* A GMV bullet came first and a total-sales bullet second: one Revenue card.
RevenueNamedTwice ==
  /\ pc = "done"
  /\ content.gen = << 4, 6 >>
  /\ Len(result.kpiCards) = 1
  /\ result.kpiCards[1].label = "Revenue"
  /\ result.kpiCards[1].value = NumVal(3219500)

\* C6: a line <amount> EGP GMV from <n> (successful) orders gives a Revenue
\* card with the amount, its thousands separators stripped, when no earlier
\* line named Revenue, and an Orders card with n when no earlier line named
\* Orders.
GmvSentenceYieldsBoth ==
  pc = "done" =>
    \A k \in 1..Len(GenLines) :
      GenLines[k].sentence =>
        /\ (\A e \in 1..(k - 1) : "Revenue" \notin LabelsOf(GenLines[e])) =>
             \E i \in 1..Len(result.kpiCards) :
               /\ result.kpiCards[i].label = "Revenue"
               /\ result.kpiCards[i].value = NumVal(ValueIn(GenLines[k], "Revenue"))
               /\ result.kpiCards[i].unit = "EGP"
        /\ (\A e \in 1..(k - 1) : "Orders" \notin LabelsOf(GenLines[e])) =>
             \E i \in 1..Len(result.kpiCards) :
               /\ result.kpiCards[i].label = "Orders"
               /\ result.kpiCards[i].value = NumVal(ValueIn(GenLines[k], "Orders"))

\* The sentence after a line that named the average order: both cards follow.
SentenceGaveBoth ==
  /\ pc = "done"
  /\ content.gen = << 8, 1 >>
  /\ Len(result.kpiCards) = 3
  /\ result.kpiCards[2].label = "Revenue"
  /\ result.kpiCards[2].value = NumVal(2838295)
  /\ result.kpiCards[3].label = "Orders"
  /\ result.kpiCards[3].value = NumVal(1700)

\* ------------------------------------------------------------------------
\* C7, C8
\* ------------------------------------------------------------------------
\* Items of a top-sellers list: the name, the amount as written, the amount
\* in hundredths and the name as a chart shows it, all written by hand.
ItemOf(name, amount, value, shown) ==
  [name |-> name, amount |-> amount, value |-> value, shown |-> shown]

ItemCatalog ==
  << ItemOf("Latte", "1,600", 160000, "Latte"),
     ItemOf("Flat White", "425", 42500, "Flat White"),
     ItemOf("Mocha", "520", 52000, "Mocha"),
     ItemOf("Espresso", "300", 30000, "Espresso"),
     ItemOf("Cappuccino", "2,600", 260000, "Cappuccino"),
     ItemOf("Iced Tea", "150", 15000, "Iced Tea"),
     ItemOf("Croissant", "980.5", 98050, "Croissant"),
     ItemOf("Bagel", "210", 21000, "Bagel"),
     ItemOf("Grilled Chicken Sandwich Large", "3,100", 310000, "Grilled Chicken S..."),
     ItemOf("Grilled Chicken Sandwich Small", "2,450", 245000, "Grilled Chicken S..."),
     ItemOf("Muffin", "760", 76000, "Muffin"),
     ItemOf("latte", "90", 9000, "latte") >>

\* The line of item it as line k of the list, in one of the four formats:
\* B a bullet line, S name: amount EGP, R a ranked line, F name = amount EGP.
ItemLine(it, format, k) ==
  CASE format = "B" -> BULLET \o " " \o it.name \o ": " \o it.amount \o " EGP"
    [] format = "S" -> it.name \o ": " \o it.amount \o " EGP"
    [] format = "R" -> ToString(k) \o ". " \o it.name \o " - " \o it.amount \o " EGP"
    [] format = "F" -> it.name \o " = " \o it.amount \o " EGP"

FormatCycles ==
  { << "B" >>, << "S" >>, << "R" >>, << "F" >>, << "B", "S" >>, << "B", "R" >>,
    << "S", "R", "F" >>, << "B", "B", "R", "F" >> }

Rotations == {0, 4, 8}

MaxChartLines == 10

\* n lines: the items from rotation r on, the formats following the cycle c.
ChartGen(c, r, n) ==
  [k \in 1..n |-> << ((r + k - 1) % Len(ItemCatalog)) + 1, c[((k - 1) % Len(c)) + 1] >>]

ChartText(g) ==
  Join(<< "Top sellers today" >> \o [k \in 1..Len(g) |-> ItemLine(ItemCatalog[g[k][1]], g[k][2], k)])

ChartInputs ==
  { Gen(ChartText(ChartGen(c, r, n)), ChartGen(c, r, n)) :
      c \in FormatCycles, r \in Rotations, n \in 0..MaxChartLines }

InitChart ==
  /\ inputs = ChartInputs
  /\ callsLeft = 1
  /\ InitLocals
  /\ InitChat

SpecChart == InitChart /\ [][Next]_vars

\* C7: the names of the chart points of a result are pairwise distinct when
\* compared without regard to letter case.
ChartNamesDistinct ==
  pc = "done" =>
    \A i, j \in 1..Len(result.chartData) :
      i # j => ToLower(result.chartData[i].name) # ToLower(result.chartData[j].name)

\* The items a tier collects from the lines written in the formats it reads,
\* in the order of the lines, an item whose name was collected before left out.
RECURSIVE Collected(_, _, _, _)
Collected(g, k, formats, acc) ==
  IF k > Len(g) THEN acc
  ELSE Collected(g, k + 1, formats,
         IF /\ g[k][2] \in formats
            /\ \A j \in 1..Len(acc) :
                 ToLower(ItemCatalog[acc[j]].name) # ToLower(ItemCatalog[g[k][1]].name)
         THEN Append(acc, g[k][1]) ELSE acc)

\* The four tiers together: a later tier adds its items while fewer than
\* three are collected.
CollectedByTiers(g) ==
  With([t1 \in {Collected(g, 1, {"B"}, << >>)} |->
  With([t2 \in {IF Len(t1) < 3 THEN Collected(g, 1, {"B", "S"}, t1) ELSE t1} |->
  With([t3 \in {IF Len(t2) < 3 THEN Collected(g, 1, {"R"}, t2) ELSE t2} |->
      IF Len(t3) < 3 THEN Collected(g, 1, {"B", "S", "F"}, t3) ELSE t3])])])

HasChartSection == \E k \in 1..Len(result.sections) : result.sections[k].type = "chart"

\* C8: when the tiers collect n points, n < 3 gives no chartData and no chart
\* section, and n >= 3 gives the first min(n, 8) of them in the order they
\* were collected, not sorted by value.
ChartThreeToEight ==
  pc = "done" =>
    \E exp \in {CollectedByTiers(content.gen)} :
      IF Len(exp) < 3
      THEN result.chartData = << >> /\ ~HasChartSection
      ELSE /\ Len(result.chartData) = (IF Len(exp) < 8 THEN Len(exp) ELSE 8)
           /\ Len(result.chartData) \in 3..8
           /\ \A i \in 1..Len(result.chartData) :
                /\ result.chartData[i].name = ItemCatalog[exp[i]].shown
                /\ result.chartData[i].value = ItemCatalog[exp[i]].value
           /\ HasChartSection

\* Ten lines, bullets and ranked lines in turn: the five bullets were
\* collected, in their order, with values that are not sorted.
FiveBulletsKept ==
  /\ pc = "done"
  /\ content.gen = ChartGen(<< "B", "R" >>, 0, 10)
  /\ Len(result.chartData) = 5
  /\ result.chartData[1].value < result.chartData[3].value
  /\ result.chartData[3].value > result.chartData[4].value

\* ------------------------------------------------------------------------
\* C9
\* ------------------------------------------------------------------------
\* What an item line says after the name: the words, whether they are an
\* amount in EGP and the amount in hundredths, written by hand.
TokenOf(words, egp, value) == [words |-> words, egp |-> egp, value |-> value]

TokenCatalog ==
  << TokenOf("4 units", FALSE, 0),
     TokenOf("2,600 EGP GMV", TRUE, 260000),
     TokenOf("(22%)", FALSE, 0),
     TokenOf("50 EGP", TRUE, 5000),
     TokenOf("99.5 egp", TRUE, 9950),
     TokenOf("100 EGP", TRUE, 10000),
     TokenOf("7,000 units", FALSE, 0) >>

MaxTokens == 3

TokenChoices ==
  UNION { { g \in [1..n -> 1..Len(TokenCatalog)] : \A i, j \in 1..n : i # j => g[i] # g[j] } :
            n \in 1..MaxTokens }

\* The line of Steak & Fries with the chosen tokens, and two more items.
ValueText(g) ==
  Join(<< BULLET \o " Steak & Fries: "
            \o Concat([k \in 1..Len(g) |->
                         (IF k = 1 THEN "" ELSE " " \o ARROW \o " ") \o TokenCatalog[g[k]].words]),
          BULLET \o " Latte: 1,600 EGP",
          BULLET \o " Mocha: 520 EGP" >>)

ValueInputs == { Gen(ValueText(g), g) : g \in TokenChoices }

InitValue ==
  /\ inputs = ValueInputs
  /\ callsLeft = 1
  /\ InitLocals
  /\ InitChat

SpecValue == InitValue /\ [][Next]_vars

\* The amounts in EGP on the parsed line.
GenAmounts ==
  { TokenCatalog[content.gen[k]].value :
      k \in { i \in 1..Len(content.gen) : TokenCatalog[content.gen[i]].egp } }

\* C9: the value of a bulleted item line is the largest amount in EGP on the
\* line that is at least 100, or the largest amount when none reaches 100; a
\* number that no EGP follows (a percentage, a count of units) is never taken.
LargestEgpAmount ==
  pc = "done" =>
    IF GenAmounts = {}
    THEN \A i \in 1..Len(result.chartData) : result.chartData[i].name # "Steak & Fries"
    ELSE /\ Len(result.chartData) = 3
         /\ result.chartData[1].name = "Steak & Fries"
         /\ result.chartData[1].value \in GenAmounts
         /\ result.chartData[1].value =
              (IF \E a \in GenAmounts : a >= 10000
               THEN Max({ a \in GenAmounts : a >= 10000 })
               ELSE Max(GenAmounts))

\* Steak & Fries: 4 units > 2,600 EGP GMV > (22%) gave 2600.
SteakAndFries ==
  /\ pc = "done"
  /\ content.gen = << 1, 2, 3 >>
  /\ result.chartData[1] = Point("Steak & Fries", 260000, "EGP")

\* ------------------------------------------------------------------------
\* C10
\* ------------------------------------------------------------------------
\* Lines of a menu engineering block: the line, the category it names and
\* its items, written by hand.
MenuLineOf(line, category, items) == [line |-> line, category |-> category, items |-> items]

MenuCatalog ==
  << MenuLineOf("STAR: Latte, Mocha", "STAR", << "Latte", "Mocha" >>),
     MenuLineOf(BULLET \o " " \o STARICON \o " star: Tea", "STAR", << "Tea" >>),
     MenuLineOf("DOG: Decaf", "DOG", << "Decaf" >>),
     MenuLineOf("PUZZLE (low margin): Flat White and Chai", "PUZZLE", << "Flat White", "Chai" >>),
     MenuLineOf("- PLOWHORSE: Filter Coffee", "PLOWHORSE", << "Filter Coffee" >>),
     MenuLineOf("STAR: Espresso and Cortado, Latte", "STAR", << "Espresso", "Cortado", "Latte" >>),
     MenuLineOf("* Dog: Iced Tea,", "DOG", << "Iced Tea" >>) >>

MaxMenuLines == 3

MenuChoices ==
  UNION { { g \in [1..n -> 1..Len(MenuCatalog)] : \A i, j \in 1..n : i # j => g[i] # g[j] } :
            n \in 1..MaxMenuLines }

MenuInputs == { Gen(Join([k \in 1..Len(g) |-> MenuCatalog[g[k]].line]), g) : g \in MenuChoices }

InitMenu ==
  /\ inputs = MenuInputs
  /\ callsLeft = 1
  /\ InitLocals
  /\ InitChat

SpecMenu == InitMenu /\ [][Next]_vars

\* The items of the lines k.. of the parsed text that name the category.
RECURSIVE ItemsNamed(_, _)
ItemsNamed(category, k) ==
  IF k > Len(content.gen) THEN << >>
  ELSE (IF MenuCatalog[content.gen[k]].category = category
        THEN MenuCatalog[content.gen[k]].items ELSE << >>) \o ItemsNamed(category, k + 1)

GenCategories == { MenuCatalog[content.gen[k]].category : k \in 1..Len(content.gen) }

\* C10: menuEngineering holds one entry for each category the text names and
\* no second one; the items of the entry are the items of all lines of the
\* category, concatenated in the order of the lines.
OneEntryPerCategory ==
  pc = "done" =>
    /\ \A i, j \in 1..Len(result.menuEngineering) :
         i # j => result.menuEngineering[i].category # result.menuEngineering[j].category
    /\ Len(result.menuEngineering) = Cardinality(GenCategories)
    /\ \A category \in GenCategories :
         \E i \in 1..Len(result.menuEngineering) :
           /\ result.menuEngineering[i].category = category
           /\ result.menuEngineering[i].items = ItemsNamed(category, 1)

\* Two STAR lines with a DOG line between them: one STAR entry of five items.
TwoStarLines ==
  /\ pc = "done"
  /\ content.gen = << 1, 3, 6 >>
  /\ Len(result.menuEngineering) = 2
  /\ result.menuEngineering[1].category = "STAR"
  /\ result.menuEngineering[1].items = << "Latte", "Mocha", "Espresso", "Cortado", "Latte" >>

\* ------------------------------------------------------------------------
\* C11
\* ------------------------------------------------------------------------
\* A block of the text: its lines, whether it is an ALERTS block, and the
\* texts of the insight items its lines stand for, in the order of the lines.
BlockOf(lines, isAlerts, texts) == [lines |-> lines, isAlerts |-> isAlerts, texts |-> texts]

BlockCatalog ==
  << BlockOf("- Morning rush drives most of the revenue", FALSE,
             << "Morning rush drives most of the revenue" >>),
     BlockOf(BULLET \o " " \o FIRE \o " Iced drinks are trending this week\n* Weekend traffic keeps growing",
             FALSE,
             << "Iced drinks are trending this week", "Weekend traffic keeps growing" >>),
     BlockOf("- " \o CHECK \o " Delivery times improved a lot", FALSE,
             << "Delivery times improved a lot" >>),
     BlockOf("ALERTS:\n" \o BULLET \o " Cappuccino: 3 qty vs 19.1 avg " \o DOWN \o " 84.3% "
               \o ARROW \o " check stock\n" \o BULLET \o " Espresso machine needs a service",
             TRUE,
             << "**Cappuccino**: 3 vs 19.1 avg (" \o DOWN \o "84.3%) " \o MDASH \o " check stock",
                "Espresso machine needs a service" >>),
     BlockOf("ALERTS (today):\n- Mocha: 30 units vs 12 avg " \o UP \o " 150%", TRUE,
             << "**Mocha**: 30 vs 12 avg (" \o UP \o "150%)" >>) >>

MaxBlocks == 3

\* Distinct blocks in any order, one ALERTS block at most.
BlockChoices ==
  UNION { { g \in [1..n -> 1..Len(BlockCatalog)] :
              /\ \A i, j \in 1..n : i # j => g[i] # g[j]
              /\ Cardinality({i \in 1..n : BlockCatalog[g[i]].isAlerts}) <= 1 } :
            n \in 1..MaxBlocks }

RECURSIVE JoinBlocks(_, _)
JoinBlocks(g, k) ==
  IF k > Len(g) THEN ""
  ELSE BlockCatalog[g[k]].lines \o (IF k < Len(g) THEN "\n\n" ELSE "") \o JoinBlocks(g, k + 1)

InsightInputs == { Gen(JoinBlocks(g, 1), g) : g \in BlockChoices }

InitInsights ==
  /\ inputs = InsightInputs
  /\ callsLeft = 1
  /\ InitLocals
  /\ InitChat

SpecInsights == InitInsights /\ [][Next]_vars

\* The item texts of the blocks k.. of the parsed text whose isAlerts is in
\* kinds, in the order of the source lines.
RECURSIVE TextsOf(_, _)
TextsOf(kinds, k) ==
  IF k > Len(content.gen) THEN << >>
  ELSE (IF BlockCatalog[content.gen[k]].isAlerts \in kinds
        THEN BlockCatalog[content.gen[k]].texts ELSE << >>) \o TextsOf(kinds, k + 1)

InsightTexts == [k \in 1..Len(result.insights) |-> result.insights[k].text]

\* C11 as stated: the items of result.insights are in the order of their
\* source lines, also when bullets and an ALERTS block both occur.
InsightsInSourceOrder ==
  pc = "done" => InsightTexts = TextsOf(BOOLEAN, 1)

\* C11: result.insights holds the items of the ALERTS block, in the order of
\* its lines, followed by the other insight bullets, in the order of their
\* lines, wherever the ALERTS block stands in the text.
AlertsThenInsights ==
  pc = "done" => InsightTexts = TextsOf({TRUE}, 1) \o TextsOf({FALSE}, 1)

\* A bullet, then the ALERTS block, then two more bullets.
BulletBeforeAlerts ==
  /\ pc = "done"
  /\ content.gen = << 1, 4, 2 >>
  /\ Len(result.insights) = 5
  /\ result.insights[1].type = "warning"
  /\ result.insights[3].text = "Morning rush drives most of the revenue"

\* ------------------------------------------------------------------------
\* C12
\* ------------------------------------------------------------------------
\* The numbers an item can be written with, and their values.
NumberOf(written, n) == [written |-> written, n |-> n]

NumberCatalog ==
  << NumberOf("2", 2), NumberOf("5", 5), NumberOf("7", 7), NumberOf("12", 12),
     NumberOf("03", 3) >>

RecTexts ==
  << "Promote the mocha. Expected impact: +EGP 220/day",
     "Check the cappuccino stock",
     "Train the staff on upselling, twice a week",
     "Open 30 minutes earlier" >>

MaxRecs == 3

\* The numbers of the items, one after the other: any numbers in any order.
RecChoices == UNION { [1..n -> 1..Len(NumberCatalog)] : n \in 1..MaxRecs }

RecHeaders == << "Recommendations:\n", "Here's what I'd do:\n", "Sales dipped.\n\nNext steps:\n" >>

RecText(g) ==
  RecHeaders[(g[1] % 3) + 1]
    \o Join([k \in 1..Len(g) |->
               (IF k = 2 THEN "  " ELSE "") \o NumberCatalog[g[k]].written \o ". "
                 \o RecTexts[((k - 1) % Len(RecTexts)) + 1]])

RecInputs == { Gen(RecText(g), g) : g \in RecChoices }

InitRecs ==
  /\ inputs = RecInputs
  /\ callsLeft = 1
  /\ InitLocals
  /\ InitChat

SpecRecs == InitRecs /\ [][Next]_vars

\* C12: the index of each recommendation is the number written before the
\* item in the text, in the order of the items; the items are not numbered
\* anew.
IndexIsWrittenNumber ==
  pc = "done" =>
    /\ Len(result.recommendations) = Len(content.gen)
    /\ \A k \in 1..Len(content.gen) :
         result.recommendations[k].index = 100 * NumberCatalog[content.gen[k]].n

\* The list numbered 2, 5, 7 gives the indices 2, 5, 7.
TwoFiveSeven ==
  /\ pc = "done"
  /\ content.gen = << 1, 2, 3 >>
  /\ Len(result.recommendations) = 3
  /\ result.recommendations[1].index = 200
  /\ result.recommendations[2].index = 500
  /\ result.recommendations[3].index = 700

\* ------------------------------------------------------------------------
\* C13
\* ------------------------------------------------------------------------
\* The first table of OneTable and of ThreeTables, as the claim reads it.
FirstTable == [headers |-> << "a", "b" >>, rows |-> << << "1", "2" >> >>]

\* C13 as stated: when the text that reaches the table stage holds a pipe
\* table, tableData is built from the first table: its headers are the
\* trimmed header cells and its rows the trimmed cells of the body rows.
TableFromFirstTable ==
  pc \in {"done", "thrown"} /\ content \in {Str(OneTable), Str(ThreeTables)} =>
    /\ pc = "done"
    /\ result.hasTable
    /\ result.tableData = FirstTable

\* ------------------------------------------------------------------------
\* C14
\* ------------------------------------------------------------------------
\* The orders of ss are 0, 1, 2, ... and no type occurs twice.
Gapless(ss) ==
  /\ \A k \in 1..Len(ss) : ss[k].order = k - 1
  /\ \A i, j \in 1..Len(ss) : i # j => ss[i].type # ss[j].type

\* C14: the i-th section of every result has order i, counted from 0 in the
\* order in which the stages found something, and no section type occurs
\* twice; the same holds of the sections collected so far at every step.
SectionOrdersGapless ==
  /\ Gapless(sections)
  /\ order = Len(sections)
  /\ pc = "done" /\ result.hasSections => result.sections = sections

\* A text without headline: its first section, the KPIs, has order 0, and
\* the menu, the insights and the text follow with 1, 2, 3.
NoHeadlineStartsAtZero ==
  /\ pc = "done"
  /\ result.headline = ""
  /\ [k \in 1..Len(result.sections) |-> result.sections[k].type]
       = << "kpis", "menu", "insights", "text" >>
  /\ [k \in 1..Len(result.sections) |-> result.sections[k].order] = << 0, 1, 2, 3 >>

\* ------------------------------------------------------------------------
\* C15
\* ------------------------------------------------------------------------
\* The structured fields of r that are present and not empty.
PresentFields(r) ==
  {f \in {"headline"} : r.headline # ""}
    \cup {f \in {"kpiCards"} : r.kpiCards # << >>}
    \cup {f \in {"chartData"} : r.chartData # << >>}
    \cup {f \in {"menuEngineering"} : r.menuEngineering # << >>}
    \cup {f \in {"recommendations"} : r.recommendations # << >>}
    \cup {f \in {"insights"} : r.insights # << >>}
    \cup {f \in {"tableData"} : r.hasTable}

\* C15: hasVisualContent(result) is true exactly when one of headline,
\* kpiCards, chartData, menuEngineering, recommendations, insights, tableData
\* is present and not empty; rawText and sections do not count.
VisualIffStructuredField ==
  pc = "shown" => (showVisual <=> PresentFields(result) # {})

\* Plain prose: a raw text and a text section, and nothing to visualise.
RawTextAloneNotVisual ==
  /\ pc = "shown"
  /\ ~showVisual
  /\ result.hasRawText /\ result.rawText # ""
  /\ Len(result.sections) = 1

\* ------------------------------------------------------------------------
\* C16
\* ------------------------------------------------------------------------
\* Sentences of plain prose: no HEADLINE marker, no bullet, no digit, no bold
\* text and no table.
ProseCatalog ==
  << "Just some regular text without any metrics or data.",
     "Guests were happy with the service this week.",
     "Headlines praised the new menu this week.",
     "The dog days are over and sales will rise.",
     "We should talk about the evening shift soon.",
     "Star: the latte sells best of all." >>

MaxSentences == 2

ProseChoices ==
  UNION { { g \in [1..n -> 1..Len(ProseCatalog)] : \A i, j \in 1..n : i # j => g[i] # g[j] } :
            n \in 1..MaxSentences }

ProseInputs == { Gen(Join([k \in 1..Len(g) |-> ProseCatalog[g[k]]]), g) : g \in ProseChoices }

InitProse ==
  /\ inputs = ProseInputs
  /\ callsLeft = 1
  /\ InitLocals
  /\ InitChat

SpecProse == InitProse /\ [][Next]_vars

\* C16 as stated: for plain prose without headline marker, bulleted lines
\* and digits, hasVisualContent(parseResponse(input)) is false.
ProseNotVisual ==
  pc = "shown" => ~showVisual

\* ------------------------------------------------------------------------
\* C17
\* ------------------------------------------------------------------------
MaxSends == 2

InitConversation ==
  /\ inputs = {Str("short"), Str(OneTable)}
  /\ callsLeft = MaxSends
  /\ InitLocals
  /\ InitChat

SpecChat == InitConversation /\ [][Next]_vars

\* The contents an assistant message can have: an answer or an error text.
AssistantTexts == (Answers \ {""}) \cup {NoAnswerText, ConnectErrorText, OtherErrorText}

\* C17: a step that sends a non-blank message appends the user message to
\* the list and sets isLoading, and the request waits from then on; a step
\* that settles a request, by success or by failure, leaves the list that
\* ended with the request's user message with exactly one assistant message
\* after it, an answer or an error text, and clears isLoading.
SendThenOneAnswer ==
  [][ /\ \A r \in pending' \ pending :
           /\ r.question # ""
           /\ messages' = Append(messages, Message("user", r.question))
           /\ r.updatedMessages = messages'
           /\ isLoading'
      /\ \A r \in pending \ pending' :
           /\ r.updatedMessages[Len(r.updatedMessages)] = Message("user", r.question)
           /\ Len(messages') = Len(r.updatedMessages) + 1
           /\ SubSeq(messages', 1, Len(r.updatedMessages)) = r.updatedMessages
           /\ messages'[Len(messages')].role = "assistant"
           /\ messages'[Len(messages')].content \in AssistantTexts
           /\ ~isLoading' ]_vars

\* Two messages were sent, the second after New Chat while the first request
\* was waiting; one request has failed and the other still waits: the list
\* is the user message and one error text, and isLoading is false.
OneOfTwoRequestsFailed ==
  /\ ~isLoading
  /\ Cardinality(pending) = 1
  /\ callsLeft = 0
  /\ messages = << Message("user", "Sales today?"), Message("assistant", ConnectErrorText) >>

\* ------------------------------------------------------------------------
\* C18
\* ------------------------------------------------------------------------
\* A line of the text, the pattern of extractKPIs it matches ("none" for
\* prose) and the labels of the cards the pattern asks addKPI for.
TextLineOf(line, pattern, labels) == [line |-> line, pattern |-> pattern, labels |-> labels]

TextLineCatalog ==
  << TextLineOf("28,382.95 EGP GMV from 17 successful orders", "sentence", {"Revenue", "Orders"}),
     TextLineOf("@ GMV: 32,195 EGP ^ 0.5%", "bullet", {"Revenue"}),
     TextLineOf("- Orders: 21", "bullet", {"Orders"}),
     TextLineOf("1,669.59 EGP AOV", "sentence", {"Avg Order"}),
     TextLineOf("Split rate: 5.9%", "split", {}),
     TextLineOf("5.9% of orders had split payments", "split", {}),
     TextLineOf("Tips: 2,076 EGP", "sentence", {"Tips"}),
     TextLineOf("Guests were happy with the service.", "none", {}) >>

MaxTextLines == 2

TextLineChoices ==
  UNION { { g \in [1..n -> 1..Len(TextLineCatalog)] : \A i, j \in 1..n : i # j => g[i] # g[j] } :
            n \in 1..MaxTextLines }

KpiTextInputs ==
  { Gen(Join([k \in 1..Len(g) |-> TextLineCatalog[g[k]].line]), g) : g \in TextLineChoices }

InitKpiText ==
  /\ inputs = KpiTextInputs
  /\ callsLeft = 1
  /\ InitLocals
  /\ InitChat

SpecKpiText == InitKpiText /\ [][Next]_vars

\* Line k of the parsed text as written, and whether the text that the KPI
\* stage hands on still has it as a line.
WrittenLine(k) == TextLineCatalog[content.gen[k]]
StillInText(k) ==
  \E j \in 1..Len(Split(text)) : Trim(Split(text)[j]) = WrittenLine(k).line

\* Line k names a label that no earlier line named: addKPI adds a card.
AddsCard(k) ==
  \E label \in WrittenLine(k).labels :
    \A e \in 1..(k - 1) : label \notin WrittenLine(e).labels

AmountLineCatalog ==
  << ", EGP AOV",
     ",,, EGP GMV from 3 orders",
     "..% approval rate",
     "Tips: , EGP",
     "@ GMV: , EGP",
     "- Orders: ,,",
     "1,669.59 EGP AOV",
     "- Orders: 21" >>

MaxAmountLines == 2

AmountLineChoices ==
  UNION { { g \in [1..n -> 1..Len(AmountLineCatalog)] : \A i, j \in 1..n : i # j => g[i] # g[j] } :
            n \in 1..MaxAmountLines }

AmountInputs ==
  { Gen(Join([k \in 1..Len(g) |-> AmountLineCatalog[g[k]]]), g) : g \in AmountLineChoices }

InitAmounts ==
  /\ inputs = AmountInputs
  /\ callsLeft = 1
  /\ InitLocals
  /\ InitChat

SpecAmounts == InitAmounts /\ [][Next]_vars

\* C19 as stated: the value of an emitted card is a parsed number or the raw
\* string, never NaN, for the sentence forms and for the bullet form.
KpiValueNeverNaN ==
  pc = "done" =>
    \A i \in 1..Len(result.kpiCards) : result.kpiCards[i].value # NumVal(NaN)

\* ------------------------------------------------------------------------
\* C20
\* ------------------------------------------------------------------------
\* The tier that reads a line first, by the format the line is written in.
TierOfFormat(format) ==
  CASE format = "B" -> 1 [] format = "S" -> 2 [] format = "R" -> 3 [] format = "F" -> 4

\* The tier that collected point i of the result: the values of the items
\* are pairwise different, so the value tells the line.
TierOfPoint(i) ==
  TierOfFormat(content.gen[CHOOSE k \in 1..Len(content.gen) :
                             ItemCatalog[content.gen[k][1]].value = result.chartData[i].value][2])

\* C20: the points of tier 1 come first, then those of tiers 2, 3 and 4 in
\* this order, and a point of a tier is in the result only if the tiers
\* before it gave fewer than 3 points: when tier 1 gives 3 or more, every
\* point of the result is a point of tier 1.
TiersRunInOrder ==
  pc = "done" =>
    /\ \A i \in 1..Len(result.chartData) :
         \E k \in 1..Len(content.gen) :
           ItemCatalog[content.gen[k][1]].value = result.chartData[i].value
    /\ \A i, j \in 1..Len(result.chartData) : i < j => TierOfPoint(i) <= TierOfPoint(j)
    /\ \A i \in 1..Len(result.chartData) :
         Cardinality({j \in 1..Len(result.chartData) : TierOfPoint(j) < TierOfPoint(i)}) < 3
    /\ Len(Collected(content.gen, 1, {"B"}, << >>)) >= 3 =>
         /\ Len(result.chartData) >= 3
         /\ \A i \in 1..Len(result.chartData) : TierOfPoint(i) = 1

\* Eight lines, two bullets, a ranked line and a name = amount line in turn:
\* tier 1 collected the four bullets and no later tier added a point.
BulletsShutOutLaterTiers ==
  /\ pc = "done"
  /\ content.gen = ChartGen(<< "B", "B", "R", "F" >>, 0, 8)
  /\ Len(result.chartData) = 4
  /\ \A i \in 1..4 : TierOfPoint(i) = 1

\* ------------------------------------------------------------------------
\* C21
\* ------------------------------------------------------------------------
\* A bulleted line of an ALERTS block, whether it has the shape
\* item: n vs avg avg arrow pct, and the text after its bullet.
AlertLineOf(line, fits, rest) == [line |-> line, fits |-> fits, rest |-> rest]

AlertLineCatalog ==
  << AlertLineOf(BULLET \o " Cappuccino: 3 qty vs 19.1 avg " \o DOWN \o " 84.3% "
                   \o ARROW \o " check stock", TRUE, ""),
     AlertLineOf(BULLET \o " Espresso machine needs a service", FALSE,
                 "Espresso machine needs a service"),
     AlertLineOf("- Fridge door was left open", FALSE, "Fridge door was left open"),
     AlertLineOf("* Milk delivery is late again", FALSE, "Milk delivery is late again"),
     AlertLineOf("- Mocha: 30 units vs 12 avg " \o UP \o " 150%", TRUE, "") >>

MaxAlertLines == 2

AlertLineChoices ==
  UNION { { g \in [1..n -> 1..Len(AlertLineCatalog)] : \A i, j \in 1..n : i # j => g[i] # g[j] } :
            n \in 1..MaxAlertLines }

AlertInputs ==
  { Gen("ALERTS:\n" \o Join([k \in 1..Len(g) |-> AlertLineCatalog[g[k]].line]), g) :
      g \in AlertLineChoices }

InitAlerts ==
  /\ inputs = AlertInputs
  /\ callsLeft = 1
  /\ InitLocals
  /\ InitChat

SpecAlerts == InitAlerts /\ [][Next]_vars

\* C21 as stated: every bulleted line of the block gives an alert, and a
\* line that has not the alert shape gives the text after its bullet with
\* the warning icon and the type warning, whatever its bullet is.
AlertLinesAllEmitted ==
  pc = "chart" =>
    /\ Len(alerts) = Len(content.gen)
    /\ \A k \in 1..Len(content.gen) :
         ~AlertLineCatalog[content.gen[k]].fits =>
           alerts[k] = Insight(AlertLineCatalog[content.gen[k]].rest, WARN, "warning")

\* ------------------------------------------------------------------------
\* C22
\* ------------------------------------------------------------------------
\* A block written before or after the recommendations: its text, its kind
\* and what it stands for (the insight text, or the menu category).
PieceOf(lines, kind, what) == [lines |-> lines, kind |-> kind, what |-> what]

PieceCatalog ==
  << PieceOf("- Morning rush drives most of the revenue", "insight",
             "Morning rush drives most of the revenue"),
     PieceOf("- Weekend traffic keeps growing", "insight", "Weekend traffic keeps growing"),
     PieceOf("STAR: Latte, Mocha", "menu", "STAR"),
     PieceOf("DOG: Decaf", "menu", "DOG"),
     PieceOf(OneTable, "table", "") >>

RecBlock == "Recommendations:\n1. Promote the mocha\n2. Check the cappuccino stock"

\* Where each piece stands: before the header, after the list, or nowhere.
\* A table stands after the list or nowhere.
Placements ==
  { g \in [1..Len(PieceCatalog) -> {"none", "before", "after"}] :
      \A k \in 1..Len(PieceCatalog) : PieceCatalog[k].kind = "table" => g[k] # "before" }

RECURSIVE PiecesAt(_, _, _)
PiecesAt(g, where, k) ==
  IF k > Len(PieceCatalog) THEN << >>
  ELSE (IF g[k] = where THEN << k >> ELSE << >>) \o PiecesAt(g, where, k + 1)

RECURSIVE JoinPieces(_, _)
JoinPieces(ks, sep) ==
  IF ks = << >> THEN ""
  ELSE PieceCatalog[Head(ks)].lines \o (IF Len(ks) > 1 THEN sep ELSE "") \o JoinPieces(Tail(ks), sep)

PlacedText(g) ==
  (IF PiecesAt(g, "before", 1) = << >> THEN ""
   ELSE JoinPieces(PiecesAt(g, "before", 1), "\n\n") \o "\n\n")
    \o RecBlock
    \o (IF PiecesAt(g, "after", 1) = << >> THEN ""
        ELSE "\n\n" \o JoinPieces(PiecesAt(g, "after", 1), "\n\n"))

PlacedInputs == { Gen(PlacedText(g), g) : g \in Placements }

InitPlaced ==
  /\ inputs = PlacedInputs
  /\ callsLeft = 1
  /\ InitLocals
  /\ InitChat

SpecPlaced == InitPlaced /\ [][Next]_vars

\* What the pieces ks of one kind stand for, in the order of the text.
RECURSIVE WhatOf(_, _)
WhatOf(kind, ks) ==
  IF ks = << >> THEN << >>
  ELSE (IF PieceCatalog[Head(ks)].kind = kind THEN << PieceCatalog[Head(ks)].what >> ELSE << >>)
         \o WhatOf(kind, Tail(ks))

Before(kind) == WhatOf(kind, PiecesAt(content.gen, "before", 1))
After(kind) == WhatOf(kind, PiecesAt(content.gen, "after", 1))

MenuCategories == [k \in 1..Len(result.menuEngineering) |-> result.menuEngineering[k].category]

\* C22 as stated: with recommendations extracted, no insight, menu entry or
\* table written after the header is in the result.
NothingAfterHeader ==
  pc = "done" =>
    /\ Len(result.recommendations) = 2
    /\ InsightTexts = Before("insight")
    /\ MenuCategories = Before("menu")
    /\ ~result.hasTable

\* C22: with recommendations extracted, no insight bullet and no table
\* written after the header is in the result; the menu entries written
\* after the header are in it, after those written before, because the menu
\* stage runs before the recommendation stage.
InsightsAndTablesCutOff ==
  pc = "done" =>
    /\ Len(result.recommendations) = 2
    /\ InsightTexts = Before("insight")
    /\ MenuCategories = Before("menu") \o After("menu")
    /\ ~result.hasTable

\* A bullet and a STAR line after the list: the STAR entry, not the bullet.
MenuAfterHeaderKept ==
  /\ pc = "done"
  /\ content.gen = << "after", "none", "after", "none", "after" >>
  /\ result.insights = << >>
  /\ MenuCategories = << "STAR" >>
  /\ ~result.hasTable

\* ------------------------------------------------------------------------
\* C23
\* ------------------------------------------------------------------------
\* A bulleted line that no earlier stage takes: its shape ("kpi" for
\* text without colon, colon, number; "alert" for a line with vs number avg;
\* "other"), and the text an insight made of it would have.
ResidualLineOf(line, shape, made) == [line |-> line, shape |-> shape, made |-> made]

ResidualCatalog ==
  << ResidualLineOf("- Visits: 120 today", "kpi", "Visits: 120 today"),
     ResidualLineOf("* Footfall:1,200 guests", "kpi", "Footfall:1,200 guests"),
     ResidualLineOf(BULLET \o " " \o FIRE \o " Latte: 45 cups sold", "kpi", "Latte: 45 cups sold"),
     ResidualLineOf("- Mocha sold 30 VS 12.5 Avg this week", "alert",
                    "Mocha sold 30 VS 12.5 Avg this week"),
     ResidualLineOf("- " \o WARN \o " Tea is at 4 vs12avg now", "alert", "Tea is at 4 vs12avg now"),
     ResidualLineOf("- Note: Visits: 120 today", "other", "Note: Visits: 120 today"),
     ResidualLineOf("- Margin: -5 points lower", "other", "Margin: -5 points lower"),
     ResidualLineOf("* We sold more vs avg this week", "other", "We sold more vs avg this week") >>

\* What stands before the bulleted lines: nothing, a block of the KPI stage,
\* a block of the alert stage.
Preambles ==
  << "",
     "THE NUMBERS:\n" \o BULLET \o " GMV: 32,195 EGP\n\n",
     "ALERTS:\n" \o BULLET \o " Cappuccino: 3 qty vs 19.1 avg " \o DOWN \o " 84.3% "
       \o ARROW \o " check stock\n\n" >>

MaxResidualLines == 2

ResidualChoices ==
  UNION { { g \in [1..n -> 1..Len(ResidualCatalog)] : \A i, j \in 1..n : i # j => g[i] # g[j] } :
            n \in 1..MaxResidualLines }

ResidualInputs ==
  { Gen(Preambles[b] \o Join([k \in 1..Len(g) |-> ResidualCatalog[g[k]].line]),
        [before |-> b, lines |-> g]) :
      b \in 1..Len(Preambles), g \in ResidualChoices }

InitResidual ==
  /\ inputs = ResidualInputs
  /\ callsLeft = 1
  /\ InitLocals
  /\ InitChat

SpecResidual == InitResidual /\ [][Next]_vars

\* The texts of the insights the insight stage added after the alerts.
ResidualTexts == { result.insights[i].text : i \in Len(alerts) + 1 .. Len(result.insights) }

\* C23: no insight of the residual stage is made of a bulleted line of the
\* kpi shape or of the alert shape, whatever stands before the lines.
KpiAndAlertShapesRejected ==
  pc = "done" =>
    \A k \in 1..Len(content.gen.lines) :
      ResidualCatalog[content.gen.lines[k]].shape # "other" =>
        ResidualCatalog[content.gen.lines[k]].made \notin ResidualTexts

\* After an ALERTS block, a line of the kpi shape and a line with two
\* colons: the alert and the line with two colons are the insights.
KpiShapeDroppedAfterAlerts ==
  /\ pc = "done"
  /\ content.gen = [before |-> 3, lines |-> << 1, 6 >>]
  /\ Len(alerts) = 1
  /\ ResidualTexts = {"Note: Visits: 120 today"}

\* ------------------------------------------------------------------------
\* C24
\* ------------------------------------------------------------------------
\* Bulleted lines that pass the rejection, and their texts without bullet and
\* icon, of 9, 10 and 11 characters.
ShortLineOf(line, made) == [line |-> line, made |-> made]

ShortCatalog ==
  << ShortLineOf("- Mocha won", "Mocha won"),
     ShortLineOf("- Mocha rose", "Mocha rose"),
     ShortLineOf("- Mocha rises", "Mocha rises"),
     ShortLineOf(BULLET \o " " \o FIRE \o " Latte won", "Latte won"),
     ShortLineOf(BULLET \o " " \o FIRE \o " Latte rose", "Latte rose"),
     ShortLineOf(BULLET \o " " \o FIRE \o " Latte rises", "Latte rises"),
     ShortLineOf("* " \o TARGET \o " Tea is up!", "Tea is up!"),
     ShortLineOf("* " \o TARGET \o " Tea is up!!", "Tea is up!!") >>

MaxShortLines == 2

ShortChoices ==
  UNION { { g \in [1..n -> 1..Len(ShortCatalog)] : \A i, j \in 1..n : i # j => g[i] # g[j] } :
            n \in 1..MaxShortLines }

ShortInputs ==
  { Gen(Preambles[b] \o Join([k \in 1..Len(g) |-> ShortCatalog[g[k]].line]),
        [before |-> b, lines |-> g]) :
      b \in 1..Len(Preambles), g \in ShortChoices }

InitShort ==
  /\ inputs = ShortInputs
  /\ callsLeft = 1
  /\ InitLocals
  /\ InitChat

SpecShort == InitShort /\ [][Next]_vars

ShortMade(k) == ShortCatalog[content.gen.lines[k]].made

\* C24 as stated: a line is an insight exactly when its text without the
\* icon has 10 characters or more.
KeptFromTenCharacters ==
  pc = "done" =>
    \A k \in 1..Len(content.gen.lines) :
      ShortMade(k) \in ResidualTexts <=> Len(ShortMade(k)) >= 10

\* C24: a line is an insight exactly when its text without the icon has
\* 11 characters or more; a text of exactly 10 characters is discarded.
KeptFromElevenCharacters ==
  pc = "done" =>
    \A k \in 1..Len(content.gen.lines) :
      ShortMade(k) \in ResidualTexts <=> Len(ShortMade(k)) >= 11

\* A text of 10 characters and one of 11: only the second is an insight.
TenDroppedElevenKept ==
  /\ pc = "done"
  /\ content.gen = [before |-> 1, lines |-> << 5, 3 >>]
  /\ result.insights = << Insight("Mocha rises", "", "info") >>

\* ------------------------------------------------------------------------
\* C25
\* ------------------------------------------------------------------------
\* A bulleted line that starts with a recognized icon, with or without a
\* space after the icon: the icon and the rest of the line.
IconLineOf(icon, gap, rest) == [line |-> "- " \o icon \o gap \o rest, icon |-> icon, rest |-> rest]

IconCatalog ==
  << IconLineOf(FIRE, " ", "Iced drinks are trending"),
     IconLineOf(FIRE, "", "Cold brew sells out daily"),
     IconLineOf(WARN, " ", "Oat milk stock runs low"),
     IconLineOf(WARN, "", "Pastry waste went up"),
     IconLineOf(CHECK, " ", "Delivery times improved"),
     IconLineOf(CHECK, "", "Refunds stayed at zero"),
     IconLineOf(TARGET, " ", "Lunch combo hit its goal"),
     IconLineOf(TARGET, "", "Loyalty signups on track") >>

MaxIconLines == 2

IconChoices ==
  UNION { { g \in [1..n -> 1..Len(IconCatalog)] : \A i, j \in 1..n : i # j => g[i] # g[j] } :
            n \in 1..MaxIconLines }

IconInputs == { Gen(Join([k \in 1..Len(g) |-> IconCatalog[g[k]].line]), g) : g \in IconChoices }

InitIcons ==
  /\ inputs = IconInputs
  /\ callsLeft = 1
  /\ InitLocals
  /\ InitChat

SpecIcons == InitIcons /\ [][Next]_vars

\* C25: the insight of a line that starts with a recognized icon has that
\* icon as its icon and the rest of the line as its text, with or without a
\* space after the icon.
IconStrippedExactly ==
  pc = "done" =>
    /\ Len(result.insights) = Len(content.gen)
    /\ \A k \in 1..Len(content.gen) :
         /\ result.insights[k].icon = IconCatalog[content.gen[k]].icon
         /\ result.insights[k].text = IconCatalog[content.gen[k]].rest

\* ------------------------------------------------------------------------
\* C26
\* ------------------------------------------------------------------------
SectionTypes ==
  {"headline", "kpis", "chart", "menu", "recommendations", "insights", "table", "text"}

\* Whether the field of r that belongs to a section type is set and not empty.
FieldPresent(r, type) ==
  CASE type = "headline" -> r.headline # ""
    [] type = "kpis" -> r.kpiCards # << >>
    [] type = "chart" -> r.chartData # << >>
    [] type = "menu" -> r.menuEngineering # << >>
    [] type = "recommendations" -> r.recommendations # << >>
    [] type = "insights" -> r.insights # << >>
    [] type = "table" -> r.hasTable
    [] type = "text" -> r.hasRawText /\ r.rawText # ""

FieldValue(r, type) ==
  CASE type = "headline" -> r.headline
    [] type = "kpis" -> r.kpiCards
    [] type = "chart" -> r.chartData
    [] type = "menu" -> r.menuEngineering
    [] type = "recommendations" -> r.recommendations
    [] type = "insights" -> r.insights
    [] type = "table" -> r.tableData
    [] type = "text" -> r.rawText

TypesOf(ss) == { ss[i].type : i \in 1..Len(ss) }

\* C26: a result of the stages has a section of a type exactly when the
\* field of that type is set and not empty, and the content of every section
\* is the value of its field.
SectionsMirrorFields ==
  pc = "done" /\ result.hasSections =>
    /\ \A type \in SectionTypes : type \in TypesOf(result.sections) <=> FieldPresent(result, type)
    /\ \A i \in 1..Len(result.sections) :
         /\ result.sections[i].type \in SectionTypes
         /\ result.sections[i].content = FieldValue(result, result.sections[i].type)

\* The full response: seven fields are set, and each has its section with
\* its value; there is no table.
SevenFieldsSevenSections ==
  /\ pc = "done"
  /\ TypesOf(result.sections)
       = {"headline", "kpis", "chart", "menu", "recommendations", "insights", "text"}
  /\ Len(result.sections) = 7
  /\ ~result.hasTable
  /\ result.sections[2].content = result.kpiCards
  /\ Len(result.kpiCards) = 2
  /\ result.sections[7].content = result.rawText

\* ------------------------------------------------------------------------
\* C27
\* ------------------------------------------------------------------------
\* A text no stage takes anything from, and what is left of it once the empty
\* headers are removed and the blank lines collapsed: 50 or 51 characters.
ResidueOf(written, cleaned) == [written |-> written, cleaned |-> cleaned]

Calm50 == "The afternoon was calm and the team closed on time"
Calm51 == "The afternoon was calm and the team closed on time."

ResidueCatalog ==
  << ResidueOf(Calm50, Calm50),
     ResidueOf(Calm51, Calm51),
     ResidueOf("The afternoon was calm\n\n\n\nand the team closed at six",
               "The afternoon was calm\n\nand the team closed at six"),
     ResidueOf("The afternoon was calm\n\n\n\n\nand the team closed at six.",
               "The afternoon was calm\n\nand the team closed at six."),
     ResidueOf("NOTES:\n" \o Calm50, Calm50),
     ResidueOf("NOTES:\n" \o Calm51, Calm51),
     ResidueOf(Calm50 \o "\n\nNEXT STEPS:", Calm50),
     ResidueOf(Calm51 \o "\n\nNEXT STEPS:", Calm51) >>

ResidueInputs ==
  { Gen(Preambles[b] \o ResidueCatalog[k].written, [before |-> b, residue |-> k]) :
      b \in 1..Len(Preambles), k \in 1..Len(ResidueCatalog) }

InitResidue ==
  /\ inputs = ResidueInputs
  /\ callsLeft = 1
  /\ InitLocals
  /\ InitChat

SpecResidue == InitResidue /\ [][Next]_vars

Cleaned == ResidueCatalog[content.gen.residue].cleaned

\* C27: the cleaned rest of the text is the rawText and the content of a
\* last section of type text exactly when it has more than 50 characters; a
\* rest of 50 characters or fewer gives neither.
ResidueKeptAboveFifty ==
  pc = "done" =>
    IF Len(Cleaned) > 50
    THEN /\ result.hasRawText /\ result.rawText = Cleaned
         /\ Len(result.sections) > 0
         /\ result.sections[Len(result.sections)].type = "text"
         /\ result.sections[Len(result.sections)].content = Cleaned
    ELSE /\ ~result.hasRawText
         /\ "text" \notin TypesOf(result.sections)

\* After the KPI block, 57 characters with an empty header line: the 50 that
\* are left are dropped, and the KPI section is the only one.
FiftyLeftAfterCleanup ==
  /\ pc = "done"
  /\ content.gen = [before |-> 2, residue |-> 5]
  /\ Len(Cleaned) = 50
  /\ ~result.hasRawText
  /\ TypesOf(result.sections) = {"kpis"}

\* ------------------------------------------------------------------------
\* C28
\* ------------------------------------------------------------------------
\* A bulleted line: the name a chart point made of it would have ("" for a
\* line without colon), and the text an insight made of it would have.
SharedLineOf(line, name, made) == [line |-> line, name |-> name, made |-> made]

SharedCatalog ==
  << SharedLineOf("- Latte sold well: revenue 1,600 EGP", "Latte sold well",
                  "Latte sold well: revenue 1,600 EGP"),
     SharedLineOf("- Mocha is steady: about 520 EGP a day", "Mocha is steady",
                  "Mocha is steady: about 520 EGP a day"),
     SharedLineOf("- Flat white grew: now 425 EGP daily", "Flat white grew",
                  "Flat white grew: now 425 EGP daily"),
     SharedLineOf(BULLET \o " Espresso: 300 EGP", "Espresso", "Espresso: 300 EGP"),
     SharedLineOf("- Morning rush drives most of the revenue", "",
                  "Morning rush drives most of the revenue") >>

MaxSharedLines == 4

\* Lines of the catalog, in the order of the catalog.
SharedChoices ==
  UNION { { g \in [1..n -> 1..Len(SharedCatalog)] : \A i, j \in 1..n : i < j => g[i] < g[j] } :
            n \in 1..MaxSharedLines }

SharedInputs ==
  { Gen(Join([k \in 1..Len(g) |-> SharedCatalog[g[k]].line]), g) : g \in SharedChoices }

InitShared ==
  /\ inputs = SharedInputs
  /\ callsLeft = 1
  /\ InitLocals
  /\ InitChat

SpecShared == InitShared /\ [][Next]_vars

ChartNames == { result.chartData[i].name : i \in 1..Len(result.chartData) }

\* C28: no line that gave a chart point also gave an insight.
NoLineClaimedTwice ==
  pc = "done" =>
    \A k \in 1..Len(content.gen) :
      ~ /\ SharedCatalog[content.gen[k]].name \in ChartNames
        /\ SharedCatalog[content.gen[k]].made \in { result.insights[i].text : i \in 1..Len(result.insights) }

\* ------------------------------------------------------------------------
\* C29
\* ------------------------------------------------------------------------
\* Tokens of an item line around the cutoff of 100: the words and the amounts
\* in EGP that can be parsed from them, in hundredths, written by hand.
CutoffTokenOf(words, amounts) == [words |-> words, amounts |-> amounts]

CutoffCatalog ==
  << CutoffTokenOf("0 EGP", {0}),
     CutoffTokenOf("50 EGP", {5000}),
     CutoffTokenOf("99.99 EGP", {9999}),
     CutoffTokenOf("100 egp", {10000}),
     CutoffTokenOf("2,600 EGP GMV", {260000}),
     CutoffTokenOf(", EGP", {}),
     CutoffTokenOf("(22%)", {}) >>

MaxCutoffTokens == 3

CutoffChoices ==
  UNION { { g \in [1..n -> 1..Len(CutoffCatalog)] : \A i, j \in 1..n : i # j => g[i] # g[j] } :
            n \in 1..MaxCutoffTokens }

\* The line of Steak & Fries with the chosen tokens, and two more items.
CutoffText(g) ==
  Join(<< BULLET \o " Steak & Fries: "
            \o Concat([k \in 1..Len(g) |->
                         (IF k = 1 THEN "" ELSE " " \o ARROW \o " ") \o CutoffCatalog[g[k]].words]),
          BULLET \o " Latte: 1,600 EGP",
          BULLET \o " Mocha: 520 EGP" >>)

CutoffInputs == { Gen(CutoffText(g), g) : g \in CutoffChoices }

InitCutoff ==
  /\ inputs = CutoffInputs
  /\ callsLeft = 1
  /\ InitLocals
  /\ InitChat

SpecCutoff == InitCutoff /\ [][Next]_vars

\* The largest of the amounts that can be parsed on the line (0 when there is
\* none).
LargestOnLine == Max(UNION { CutoffCatalog[content.gen[k]].amounts : k \in 1..Len(content.gen) })

\* C29: the point of a bulleted item line has the largest of all amounts in
\* EGP on the line as its value, whether or not an amount reaches 100, and
\* the line gives no point exactly when that largest amount is 0.
ValueIsLargestOfAll ==
  pc = "done" =>
    IF LargestOnLine = 0
    THEN \A i \in 1..Len(result.chartData) : result.chartData[i].name # "Steak & Fries"
    ELSE /\ Len(result.chartData) = 3
         /\ result.chartData[1] = Point("Steak & Fries", LargestOnLine, "EGP")

\* Steak & Fries: 0 EGP > 99.99 EGP > 50 EGP, no amount reaches 100: 99.99.
LargestBelowCutoff ==
  /\ pc = "done"
  /\ content.gen = << 1, 3, 2 >>
  /\ result.chartData[1] = Point("Steak & Fries", 9999, "EGP")

\* ------------------------------------------------------------------------
\* C30
\* ------------------------------------------------------------------------
\* C30: from a state with an empty list and isLoading false, as New Chat
\* leaves it, every step that does not send a message leaves the list empty
\* and isLoading false, also a step that settles a request sent earlier.
EmptyUntilNextSend ==
  [][ messages = << >> /\ ~isLoading /\ pending' \ pending = {}
        => messages' = << >> /\ ~isLoading' ]_vars

====
